---- MODULE Spec2Model ----
(***************************************************************************)
(* A model of the anitube-parser scraper: fetchPage's retry recursion,     *)
(* isAnimeChanged, the page scanner (scanPage / processAnime /             *)
(* processAnimeItem / handleScanError), the orchestrator runScraper with   *)
(* its hourly timer, the playlist and detail extraction, the record        *)
(* store's mutations and queries, and the bot's notification poller.       *)
(*                                                                         *)
(* The module holds several specifications over one set of variables:      *)
(*   SpecFetch    one call of fetchPage against an arbitrary server        *)
(*   SpecChanged  isAnimeChanged applied to an arbitrary pair of records   *)
(*   SpecScanPage one direct call of the exported scanPage                 *)
(*   Spec         runs of runScraper started by index.ts and its timer     *)
(*   SpecPlaylist one call of fetchAndParsePlaylist's .each loop           *)
(*   SpecSubscriptions  subscribe / unsubscribe on the subscriptions table *)
(*   SpecUpsert   upsert applied to the animes table                       *)
(*   SpecBot      polls of processNotifications                            *)
(*   SpecRescan   processAnime applied again to an unchanged site          *)
(*   SpecLive     one run of runScraper whose steps all complete           *)
(*   SpecChat     the bot's subscribe, callback and unsubscribe handlers   *)
(*   SpecTransient  processAnime over responses that fail now and then     *)
(*   SpecStoreFails one scanPage call whose store requests can throw       *)
(*   SpecCursor   one run of runScraper over many pages                    *)
(*   SpecOverlap  overlapping runs over a site that gains episodes         *)
(*   SpecRepoll   polls that overlap or whose mark mutation throws         *)
(* The model covers a process started with CONVEX_URL set (client # null). *)
(***************************************************************************)
EXTENDS Integers, Sequences, FiniteSets, TLC

VARIABLES
    \* ---- fetchPage (src/src/scraper.ts 37-73) ----
    fStack,      \* call frames of the recursion, outermost first
    fPhase,      \* "idle" | "run" | "wait10" | "wait3" | "unwind" | "returned" | "thrown"
    fArgs,       \* the arguments of the outermost call
    fReqs,       \* the HTTP requests issued so far, in order
    fHist,       \* the responses received so far, in order
    fWaits10,    \* number of 10-second waits performed
    fWaits3,     \* number of 3-second waits performed
    fOut,        \* what the outermost call delivered to its caller
    \* ---- isAnimeChanged (src/src/scraper.ts 75-88) ----
    cOld, cNew,  \* the two records handed to isAnimeChanged
    cResult,     \* <<>> before the call, <<its value>> after it
    \* ---- runScraper (src/src/scraper.ts 415-441), one entry per run ----
    pc,          \* "idle" | "fetch" | "loop" | "extracted" | "queried" | "returned" | "done"
    page,                  \* let page
    consecutiveUnchanged,  \* let consecutiveUnchanged
    calls,                 \* the pages this run has passed to scanPage, in order
    \* ---- scanPage (src/src/scraper.ts 341-406), one entry per run ----
    stopOptions,           \* the stopOptions argument of the call in progress
    caught,                \* the error the catch of line 403 received, if any
    items,                 \* items.length of the fetched listing
    idx,                   \* number of elements the for-of loop has taken
    processed,             \* let processed
    currentConsecutiveUnchanged,
    newAnime,              \* processAnime: what parseAnimeDetails returned
    existingAnime,         \* processAnime: what the getByUrl query returned
    scrapeError,           \* parseAnimeDetails: the error its catch received, if any
    result,                \* what the last scanPage call returned
    upserts,               \* upsert mutations issued by the call in progress
    \* ---- the record store (src/convex/animes.ts) and the clock ----
    animes,                \* table "animes", in insertion order
    notificationQueue,     \* table "notificationQueue", in insertion order
    now                    \* the value new Date() yields

NULL == [kind |-> "null"]

\* ------------------------------------------------------------------------
\* Bounds of the model
\* ------------------------------------------------------------------------
MaxRetries == 3     \* largest retry budget handed to fetchPage
MaxEp == 1          \* largest episode count of a compared record
MaxUrls == 1        \* longest playerUrls list of a compared record
MaxPage == 2        \* last listing page a run of runScraper may reach
MaxItems == 3       \* largest number of items on a listing page (direct call)
RunMaxItems == 1    \* largest number of items on a listing page (runs)
MaxLimit == 2       \* largest limit handed to a direct scanPage call
MaxQueue == 1       \* capacity of the notificationQueue table
CursorPages == 11   \* last listing page of a run that is followed up to the limit
OverlapPages == 1   \* last listing page of the runs on a growing site
MaxGrowth == 1      \* largest number of playlist entries the site gains

\* ------------------------------------------------------------------------
\* fetchPage
\* ------------------------------------------------------------------------
BASE_URL == "https://anitube.in.ua"
USER_AGENT == "Mozilla/5.0"

\* A url is a sequence of text pieces; a root-relative url starts with "/".
FetchUrls == { <<"/", "anime/x">>, <<BASE_URL, "/", "anime/x">> }

\* Extra headers are a set of <<name, value>> pairs.
FetchHeaders == { {}, {<<"Referer", "r">>}, {<<"User-Agent", "custom">>} }

StartsWithSlash(url) == Len(url) > 0 /\ url[1] = "/"

\* const targetUrl = url.startsWith("/") ? BASE_URL + url : url
TargetUrl(url) == IF StartsWithSlash(url) THEN <<BASE_URL>> \o url ELSE url

\* { "User-Agent": USER_AGENT, ...headers }
RequestHeaders(headers) ==
    IF \E h \in headers : h[1] = "User-Agent"
    THEN headers
    ELSE headers \cup {<<"User-Agent", USER_AGENT>>}

\* What one fetch() can produce: an HTTP response or a network-level failure.
HttpResponse(s, b) == [kind |-> "http", status |-> s, body |-> b]
NetFailure == [kind |-> "netfail", status |-> 0, body |-> "none"]
Responses ==
    { HttpResponse(200, b) : b \in {"body1", "body2"} }
    \cup { HttpResponse(s, "none") : s \in {429, 404, 500} }
    \cup { NetFailure }

\* response.ok
Ok(resp) == resp.kind = "http" /\ resp.status >= 200 /\ resp.status <= 299

\* Number.toString(): the decimal digits of n, one character per element.
DigitChar(d) == <<"0", "1", "2", "3", "4", "5", "6", "7", "8", "9">>[d + 1]

RECURSIVE Digits(_)
Digits(n) == IF n < 10 THEN <<DigitChar(n)>>
             ELSE Digits(n \div 10) \o <<DigitChar(n % 10)>>

\* response.statusText
StatusText(status) ==
    CASE status = 404 -> "Not Found"
      [] status = 429 -> "Too Many Requests"
      [] status = 500 -> "Internal Server Error"
      [] OTHER -> "OK"

\* The error thrown for a response that is not ok (lines 59-61), or the
\* error fetch() itself threw.  A message is a sequence of text pieces; the
\* digits of a number are one piece each, no other piece holds a digit.
ErrorOf(targetUrl, resp) ==
    IF resp.kind = "http"
    THEN [kind |-> "error", cause |-> "status", status |-> resp.status,
          message |-> <<"Failed to fetch ">> \o targetUrl \o <<": ">>
                      \o Digits(resp.status) \o <<" ", StatusText(resp.status)>>]
    ELSE [kind |-> "error", cause |-> "network", status |-> 0,
          message |-> <<"fetch failed">>]

Frame(url, headers, retries) ==
    [url |-> url, headers |-> headers, retries |-> retries, at |-> "fetch"]

Top == fStack[Len(fStack)]

SetTopAt(where) == [fStack EXCEPT ![Len(fStack)].at = where]

\* Does the try block of a frame that made its recursive call at `where`
\* still enclose that call?  Both calls are `return fetchPage(...)` without
\* await (lines 55 and 69; the latter is in the catch block), so the frame's
\* handler never sees the nested call's rejection.
CatchesAwaited(where) == where = "line55"

Catches(where) == FALSE

fetchVars == <<fStack, fPhase, fArgs, fReqs, fHist, fWaits10, fWaits3, fOut>>

FetchIdle ==
    /\ fStack = <<>>
    /\ fPhase = "idle"
    /\ fArgs = NULL
    /\ fReqs = <<>>
    /\ fHist = <<>>
    /\ fWaits10 = 0
    /\ fWaits3 = 0
    /\ fOut = NULL

\* fetchPage(url, headers, retries) is called.
fetchPage(url, headers, retries) ==
    /\ fStack = <<Frame(url, headers, retries)>>
    /\ fPhase = "run"
    /\ fArgs = [url |-> url, headers |-> headers, retries |-> retries]
    /\ fReqs = <<>>
    /\ fHist = <<>>
    /\ fWaits10 = 0
    /\ fWaits3 = 0
    /\ fOut = NULL

\* The catch block reporting an exhausted budget as a condition of its own.
CatchBlockRetriesExhausted(e) ==
    IF Top.retries > 0
    THEN /\ fPhase' = "wait3"
         /\ fOut' = fOut
    ELSE /\ fPhase' = "unwind"
         /\ fOut' = [kind |-> "error", cause |-> "exhausted", status |-> 0,
                     message |-> <<"retries exhausted">>]

\* The catch block of the top frame (lines 65-72) handling error e.
CatchBlock(e) ==
    IF Top.retries > 0
    THEN /\ fPhase' = "wait3"
         /\ fOut' = fOut
    ELSE /\ fPhase' = "unwind"
         /\ fOut' = e

\* Lines 45-64: the top frame issues its request and receives resp.
FetchAttempt(resp) ==
    /\ fPhase = "run"
    /\ Top.at = "fetch"
    /\ fReqs' = Append(fReqs, [url |-> TargetUrl(Top.url),
                               headers |-> RequestHeaders(Top.headers)])
    /\ fHist' = Append(fHist, resp)
    /\ IF resp.kind = "http" /\ resp.status = 429 /\ Top.retries > 0
       THEN /\ fPhase' = "wait10"
            /\ fOut' = fOut
       ELSE IF ~Ok(resp)
       THEN CatchBlock(ErrorOf(TargetUrl(Top.url), resp))
       ELSE /\ fPhase' = "returned"
            /\ fOut' = [kind |-> "text", body |-> resp.body]
    /\ UNCHANGED <<fStack, fArgs, fWaits10, fWaits3>>

FetchWait10DropsHeaders ==
    /\ fPhase = "wait10"
    /\ fWaits10' = fWaits10 + 1
    /\ fStack' = Append(SetTopAt("line55"),
                        Frame(TargetUrl(Top.url), {}, Top.retries - 1))
    /\ fPhase' = "run"
    /\ UNCHANGED <<fArgs, fReqs, fHist, fWaits3, fOut>>

\* Lines 54-55: the 10-second wait, then the recursive call.
FetchWait10 ==
    /\ fPhase = "wait10"
    /\ fWaits10' = fWaits10 + 1
    /\ fStack' = Append(SetTopAt("line55"),
                        Frame(TargetUrl(Top.url), Top.headers, Top.retries - 1))
    /\ fPhase' = "run"
    /\ UNCHANGED <<fArgs, fReqs, fHist, fWaits3, fOut>>

\* Lines 68-69: the 3-second wait, then the recursive call.
FetchWait3 ==
    /\ fPhase = "wait3"
    /\ fWaits3' = fWaits3 + 1
    /\ fStack' = Append(SetTopAt("line69"),
                        Frame(TargetUrl(Top.url), Top.headers, Top.retries - 1))
    /\ fPhase' = "run"
    /\ UNCHANGED <<fArgs, fReqs, fHist, fWaits10, fOut>>

\* Line 71: the error leaves the top frame and reaches the frame that called
\* it, or the caller of fetchPage when there is none.
FetchUnwind ==
    /\ fPhase = "unwind"
    /\ fStack' = SubSeq(fStack, 1, Len(fStack) - 1)
    /\ IF Len(fStack) = 1
       THEN fPhase' = "thrown"
       ELSE LET caller == fStack[Len(fStack) - 1] IN
            IF Catches(caller.at) /\ caller.retries > 0
            THEN fPhase' = "wait3"
            ELSE fPhase' = "unwind"
    /\ UNCHANGED <<fArgs, fReqs, fHist, fWaits10, fWaits3, fOut>>

\* ------------------------------------------------------------------------
\* isAnimeChanged
\* ------------------------------------------------------------------------
PlayerUrlInputs ==
    { [id |-> "0_0_1", text |-> "1", file |-> "f1"],
      [id |-> "0_1_1", text |-> "1", file |-> "f2"] }

RECURSIVE SeqsUpTo(_, _)
SeqsUpTo(S, n) ==
    IF n = 0 THEN { <<>> }
    ELSE LET shorter == SeqsUpTo(S, n - 1) IN
         shorter \cup { Append(s, x) : s \in shorter, x \in S }

Anime(url, title, description, imageUrl, sub, dub, playerUrls, lastUpdated) ==
    [kind |-> "anime", url |-> url, title |-> title, description |-> description,
     imageUrl |-> imageUrl, subbedEpisodes |-> sub, dubbedEpisodes |-> dub,
     playerUrls |-> playerUrls, lastUpdated |-> lastUpdated]

\* The stored record of a comparison, and the freshly extracted one: the
\* fresh one may differ from the stored one in every field but the url.
OldAnimeInputs ==
    { Anime("/a", "t1", "d1", "i1", s, b, p, 1) :
        s \in 0..MaxEp, b \in 0..MaxEp, p \in SeqsUpTo(PlayerUrlInputs, MaxUrls) }

NewAnimeInputs ==
    { Anime("/a", t, d, i, s, b, p, l) :
        t \in {"t1", "t2"}, d \in {"d1", "d2"}, i \in {"i1", "i2"},
        s \in 0..MaxEp, b \in 0..MaxEp,
        p \in SeqsUpTo(PlayerUrlInputs, MaxUrls), l \in {1, 2} }

isAnimeChangedNoLength(oldAnime, freshAnime) ==
    \/ oldAnime.subbedEpisodes # freshAnime.subbedEpisodes
    \/ oldAnime.dubbedEpisodes # freshAnime.dubbedEpisodes

isAnimeChangedByTimestamp(oldAnime, freshAnime) ==
    \/ oldAnime.subbedEpisodes # freshAnime.subbedEpisodes
    \/ oldAnime.dubbedEpisodes # freshAnime.dubbedEpisodes
    \/ Len(oldAnime.playerUrls) # Len(freshAnime.playerUrls)
    \/ oldAnime.lastUpdated # freshAnime.lastUpdated

isAnimeChanged(oldAnime, freshAnime) ==
    IF oldAnime.subbedEpisodes # freshAnime.subbedEpisodes THEN TRUE
    ELSE IF oldAnime.dubbedEpisodes # freshAnime.dubbedEpisodes THEN TRUE
    ELSE IF Len(oldAnime.playerUrls) # Len(freshAnime.playerUrls) THEN TRUE
    ELSE FALSE

changedVars == <<cOld, cNew, cResult>>

ChangedIdle ==
    /\ cOld = NULL
    /\ cNew = NULL
    /\ cResult = <<>>

Compare ==
    /\ cResult = <<>>
    /\ cResult' = <<isAnimeChanged(cOld, cNew)>>
    /\ UNCHANGED <<cOld, cNew>>

\* ------------------------------------------------------------------------
\* The record store: convex/animes.ts
\* ------------------------------------------------------------------------
Matching(url) == { i \in 1..Len(animes) : animes[i].url = url }

\* getByUrl: .withIndex("by_url").unique()
getByUrl(url) ==
    IF Matching(url) = {} THEN NULL
    ELSE animes[CHOOSE i \in Matching(url) : TRUE]

EventForAnyDifference(existing, args) ==
    LET subChanged == existing # NULL
                      /\ args.subbedEpisodes # existing.subbedEpisodes
        dubChanged == existing # NULL
                      /\ args.dubbedEpisodes # existing.dubbedEpisodes
    IN IF subChanged \/ dubChanged
       THEN [animeUrl |-> args.url, title |-> args.title,
             type |-> IF subChanged /\ dubChanged THEN "all"
                      ELSE IF dubChanged THEN "dub" ELSE "sub",
             status |-> "pending", createdAt |-> now]
       ELSE NULL

\* The change event upsert enqueues for args over the row `existing`, or
\* NULL when it enqueues none (lines 46-51 and 63-77).
EventFor(existing, args) ==
    LET subChanged == existing # NULL
                      /\ args.subbedEpisodes > existing.subbedEpisodes
        dubChanged == existing # NULL
                      /\ args.dubbedEpisodes > existing.dubbedEpisodes
    IN IF subChanged \/ dubChanged
       THEN [animeUrl |-> args.url, title |-> args.title,
             type |-> IF subChanged /\ dubChanged THEN "all"
                      ELSE IF dubChanged THEN "dub" ELSE "sub",
             status |-> "pending", createdAt |-> now]
       ELSE NULL

upsertInsertsUnchecked(args) ==
    /\ animes' = Append(animes, args)
    /\ notificationQueue' = notificationQueue

\* The upsert mutation: patch the row of args.url or insert one, then
\* enqueue the change event.
upsert(args) ==
    LET existing == getByUrl(args.url)
        event == EventFor(existing, args)
    IN /\ event # NULL => Len(notificationQueue) < MaxQueue
       /\ animes' = IF existing # NULL
                    THEN [i \in 1..Len(animes) |->
                            IF i = (CHOOSE j \in Matching(args.url) : TRUE)
                            THEN args ELSE animes[i]]
                    ELSE Append(animes, args)
       /\ notificationQueue' = IF event # NULL
                               THEN Append(notificationQueue, event)
                               ELSE notificationQueue

\* ------------------------------------------------------------------------
\* scanPage and its helpers
\* ------------------------------------------------------------------------
\* The runs of runScraper the model follows: the one index.ts starts at
\* launch and one started by its timer, which may overlap the first.
Runs == {1, 2}

UNCHANGED_LIMIT == 30

\* `${BASE_URL}/anime/page/${page}/`
ListingUrl(p) == <<BASE_URL, "/anime/page/">> \o Digits(p) \o <<"/">>

\* err.message.includes("404")
Includes404(message) ==
    \E i \in 1..(Len(message) - 2) :
        message[i] = "4" /\ message[i + 1] = "0" /\ message[i + 2] = "4"

ScanResult(n, cu, stop) ==
    [processed |-> n, consecutiveUnchanged |-> cu, stop |-> stop]

handleScanError(e, p, opts) ==
    IF Includes404(e.message)
    THEN ScanResult(0, opts.consecutiveUnchanged, TRUE)
    ELSE ScanResult(0, opts.consecutiveUnchanged, FALSE)

processAnimeItemNoStop(res, n, cu, limit) ==
    IF res = "UPDATED"
    THEN [processed |-> n + 1, consecutiveUnchanged |-> 0, shouldStop |-> FALSE]
    ELSE [processed |-> n, consecutiveUnchanged |-> cu + 1, shouldStop |-> FALSE]

processAnimeItem(res, n, cu, limit) ==
    IF res = "UPDATED"
    THEN [processed |-> n + 1, consecutiveUnchanged |-> 0, shouldStop |-> FALSE]
    ELSE [processed |-> n, consecutiveUnchanged |-> cu + 1,
          shouldStop |-> cu + 1 >= limit]

runVars == <<pc, page, consecutiveUnchanged, calls>>
scanVars == <<stopOptions, caught, items, idx, processed, currentConsecutiveUnchanged,
              newAnime, existingAnime, scrapeError, result, upserts>>
storeVars == <<animes, notificationQueue, now>>

\* What the listing fetch of line 352 can deliver: the page with n items, or
\* the error fetchPage throws once its retries are spent.
ListingOutcomes(p, maxItems) ==
    { [kind |-> "listing", items |-> n] : n \in 0..maxItems }
    \cup { ErrorOf(ListingUrl(p), HttpResponse(s, "none")) : s \in {404, 429, 500} }
    \cup { ErrorOf(ListingUrl(p), NetFailure) }

\* The listing elements: the link and title of an item ("" when missing).
Elements ==
    { [link |-> l, title |-> t] : l \in {"/a", "/b", ""}, t \in {"t1", ""} }

RunElements == { [link |-> "/a", title |-> "t1"], [link |-> "", title |-> "t1"] }

\* What the site shows for an item when parseAnimeDetails succeeds.
Detail(sub, dub, playerUrls) ==
    [description |-> "d1", imageUrl |-> "i1", subbedEpisodes |-> sub,
     dubbedEpisodes |-> dub, playerUrls |-> playerUrls]

PlayerA == [id |-> "0_1_1", text |-> "1", file |-> "f1"]
PlayerB == [id |-> "0_1_2", text |-> "2", file |-> "f2"]

Details ==
    { Detail(1, 1, <<PlayerA>>), Detail(2, 1, <<PlayerA>>),
      Detail(1, 1, <<PlayerA, PlayerB>>), Detail(1, 1, <<PlayerB>>) }

RunDetails == { Detail(1, 1, <<PlayerA>>) }

\* The links of a listing are root-relative: what fetchPage requests for one.
DetailUrl(link) == <<BASE_URL, link>>

\* An exception thrown while the detail page is parsed (lines 200-249).
ParseFailure ==
    [kind |-> "error", cause |-> "parse", status |-> 0, message |-> <<"parse failed">>]

\* What can end the try block of parseAnimeDetails early: the error of
\* fetchPage (line 199) once its retries are spent, or a parsing exception.
DetailFailures(link) ==
    { ErrorOf(DetailUrl(link), HttpResponse(500, "none")),
      ErrorOf(DetailUrl(link), NetFailure),
      ParseFailure }

RunDetailFailures(link) == { ErrorOf(DetailUrl(link), NetFailure) }

\* d is a thrown error, not the view of a detail page.
Thrown(d) == "cause" \in DOMAIN d

\* parseAnimeDetails (lines 193-254): the record built from the page view d
\* at time t, or null when the try block ended in the error d.
parseAnimeDetails(url, title, d, t) ==
    IF Thrown(d) THEN NULL
    ELSE Anime(url, title, d.description, d.imageUrl,
               d.subbedEpisodes, d.dubbedEpisodes, d.playerUrls, t)

\* scanPage(page[r], opts) is entered by run r: lines 341-349.
scanPage(r, p, opts) ==
    /\ calls' = [calls EXCEPT ![r] = Append(@, p)]
    /\ stopOptions' = [stopOptions EXCEPT ![r] = opts]
    /\ pc' = [pc EXCEPT ![r] = "fetch"]
    /\ caught' = [caught EXCEPT ![r] = NULL]
    /\ items' = [items EXCEPT ![r] = 0]
    /\ idx' = [idx EXCEPT ![r] = 0]
    /\ processed' = [processed EXCEPT ![r] = 0]
    /\ currentConsecutiveUnchanged' = [currentConsecutiveUnchanged EXCEPT ![r] = 0]
    /\ newAnime' = [newAnime EXCEPT ![r] = NULL]
    /\ existingAnime' = [existingAnime EXCEPT ![r] = NULL]
    /\ scrapeError' = [scrapeError EXCEPT ![r] = NULL]
    /\ result' = [result EXCEPT ![r] = NULL]
    /\ upserts' = [upserts EXCEPT ![r] = 0]

\* scanPage returns res to its caller.
Return(r, res) ==
    /\ result' = [result EXCEPT ![r] = res]
    /\ pc' = [pc EXCEPT ![r] = "returned"]

ScanFetchListingNoEmptyCheck(r, out) ==
    /\ pc[r] = "fetch"
    /\ IF out.kind = "error"
       THEN /\ caught' = [caught EXCEPT ![r] = out]
            /\ Return(r, handleScanError(out, page[r], stopOptions[r]))
            /\ UNCHANGED <<items, processed, currentConsecutiveUnchanged>>
       ELSE /\ items' = [items EXCEPT ![r] = out.items]
            /\ UNCHANGED caught
            /\ processed' = [processed EXCEPT ![r] = 0]
            /\ currentConsecutiveUnchanged' =
                  [currentConsecutiveUnchanged EXCEPT
                      ![r] = stopOptions[r].consecutiveUnchanged]
            /\ pc' = [pc EXCEPT ![r] = "loop"]
            /\ UNCHANGED result
    /\ UNCHANGED <<page, consecutiveUnchanged, calls, stopOptions, idx, newAnime,
                   existingAnime, scrapeError, upserts, storeVars>>

\* Lines 351-366 and 403-405: the listing fetch and what follows it.
ScanFetchListing(r, out) ==
    /\ pc[r] = "fetch"
    /\ IF out.kind = "error"
       THEN /\ caught' = [caught EXCEPT ![r] = out]
            /\ Return(r, handleScanError(out, page[r], stopOptions[r]))
            /\ UNCHANGED <<items, processed, currentConsecutiveUnchanged>>
       ELSE IF out.items = 0
       THEN /\ Return(r, ScanResult(0, stopOptions[r].consecutiveUnchanged, TRUE))
            /\ UNCHANGED <<caught, items, processed, currentConsecutiveUnchanged>>
       ELSE /\ items' = [items EXCEPT ![r] = out.items]
            /\ UNCHANGED caught
            /\ processed' = [processed EXCEPT ![r] = 0]
            /\ currentConsecutiveUnchanged' =
                  [currentConsecutiveUnchanged EXCEPT
                      ![r] = stopOptions[r].consecutiveUnchanged]
            /\ pc' = [pc EXCEPT ![r] = "loop"]
            /\ UNCHANGED result
    /\ UNCHANGED <<page, consecutiveUnchanged, calls, stopOptions, idx, newAnime,
                   existingAnime, scrapeError, upserts, storeVars>>

\* Lines 368-373 for an element without link or title: it is passed over.
ScanSkipElement(r, el) ==
    /\ pc[r] = "loop"
    /\ idx[r] < items[r]
    /\ ~(el.link # "" /\ el.title # "")
    /\ idx' = [idx EXCEPT ![r] = @ + 1]
    /\ UNCHANGED <<runVars, stopOptions, caught, items, processed,
                   currentConsecutiveUnchanged, newAnime, existingAnime, scrapeError,
                   result, upserts, storeVars>>

\* Lines 368-374 and 261: the next element has a link and a title, and
\* parseAnimeDetails(link, title) runs with the try block ending in d.
ScanExtract(r, el, d) ==
    /\ pc[r] = "loop"
    /\ idx[r] < items[r]
    /\ el.link # "" /\ el.title # ""
    /\ idx' = [idx EXCEPT ![r] = @ + 1]
    /\ newAnime' = [newAnime EXCEPT ![r] = parseAnimeDetails(el.link, el.title, d, now)]
    /\ scrapeError' = [scrapeError EXCEPT ![r] = IF Thrown(d) THEN d ELSE NULL]
    /\ pc' = [pc EXCEPT ![r] = "extracted"]
    /\ UNCHANGED <<page, consecutiveUnchanged, calls, stopOptions, caught, items,
                   processed, currentConsecutiveUnchanged, existingAnime, result,
                   upserts, storeVars>>

\* Lines 398-402: the loop is over.
ScanEndOfPage(r) ==
    /\ pc[r] = "loop"
    /\ idx[r] = items[r]
    /\ Return(r, ScanResult(processed[r], currentConsecutiveUnchanged[r], FALSE))
    /\ UNCHANGED <<page, consecutiveUnchanged, calls, stopOptions, caught, items, idx,
                   processed, currentConsecutiveUnchanged, newAnime, existingAnime,
                   scrapeError, upserts, storeVars>>

\* Lines 375-396: processAnime delivered res for the current item.
ItemDone(r, res) ==
    LET update == processAnimeItem(res, processed[r],
                                   currentConsecutiveUnchanged[r],
                                   stopOptions[r].limit)
    IN /\ processed' = [processed EXCEPT ![r] = update.processed]
       /\ newAnime' = [newAnime EXCEPT ![r] = NULL]
       /\ existingAnime' = [existingAnime EXCEPT ![r] = NULL]
       /\ scrapeError' = [scrapeError EXCEPT ![r] = NULL]
       /\ currentConsecutiveUnchanged' =
             [currentConsecutiveUnchanged EXCEPT ![r] = update.consecutiveUnchanged]
       /\ IF update.shouldStop
          THEN Return(r, ScanResult(update.processed,
                                    update.consecutiveUnchanged, TRUE))
          ELSE /\ pc' = [pc EXCEPT ![r] = "loop"]
               /\ UNCHANGED result

\* What processAnime returns when parseAnimeDetails delivered null (line 281).
ResultForNull == "UNCHANGED"

\* processAnime, lines 263 and 281: parseAnimeDetails delivered null.
processAnimeNull(r) ==
    /\ pc[r] = "extracted"
    /\ newAnime[r] = NULL
    /\ ItemDone(r, ResultForNull)
    /\ UNCHANGED <<page, consecutiveUnchanged, calls, stopOptions, caught, items, idx,
                   upserts, storeVars>>

\* processAnime, lines 263-266: the getByUrl query.
processAnimeQuery(r) ==
    /\ pc[r] = "extracted"
    /\ newAnime[r] # NULL
    /\ existingAnime' = [existingAnime EXCEPT ![r] = getByUrl(newAnime[r].url)]
    /\ pc' = [pc EXCEPT ![r] = "queried"]
    /\ UNCHANGED <<page, consecutiveUnchanged, calls, stopOptions, caught, items, idx,
                   processed, currentConsecutiveUnchanged, newAnime, scrapeError, result,
                   upserts, storeVars>>

\* let hasChanged (lines 268-271)
HasChangedAlways(existing, fresh) == TRUE

HasChanged(existing, fresh) ==
    IF existing # NULL THEN isAnimeChanged(existing, fresh) ELSE TRUE

\* What the Convex client throws when a query or a mutation fails.
StoreFailure ==
    [kind |-> "error", cause |-> "store", status |-> 0, message |-> <<"Server Error">>]

\* processAnime, lines 263-276: the getByUrl query or the upsert mutation
\* throws; nothing in processAnime catches it, so the catch of scanPage
\* (lines 403-405) receives it.
processAnimeStoreThrows(r) ==
    /\ \/ pc[r] = "extracted" /\ newAnime[r] # NULL
       \/ pc[r] = "queried" /\ HasChanged(existingAnime[r], newAnime[r])
    /\ caught' = [caught EXCEPT ![r] = StoreFailure]
    /\ Return(r, handleScanError(StoreFailure, page[r], stopOptions[r]))
    /\ UNCHANGED <<page, consecutiveUnchanged, calls, stopOptions, items, idx,
                   processed, currentConsecutiveUnchanged, newAnime, existingAnime,
                   scrapeError, upserts, storeVars>>

\* processAnime, lines 268-279: the decision and the upsert mutation.
processAnimeDecide(r) ==
    /\ pc[r] = "queried"
    /\ IF HasChanged(existingAnime[r], newAnime[r])
       THEN /\ upsert(newAnime[r])
            /\ upserts' = [upserts EXCEPT ![r] = @ + 1]
            /\ ItemDone(r, "UPDATED")
       ELSE /\ UNCHANGED <<animes, notificationQueue, upserts>>
            /\ ItemDone(r, "UNCHANGED")
    /\ UNCHANGED <<page, consecutiveUnchanged, calls, stopOptions, caught, items, idx,
                   now>>

\* ------------------------------------------------------------------------
\* runScraper and the timer of index.ts
\* ------------------------------------------------------------------------
\* index.ts: the first run starts at launch (line 6), a later one when the
\* timer fires (lines 9-15), whatever the state of the run before it.
MayStart(r) == IF r = 1 THEN TRUE ELSE pc[r - 1] # "idle"

RunStartShared(r) ==
    /\ pc[r] = "idle"
    /\ MayStart(r)
    /\ LET p == IF r = 1 THEN 1 ELSE page[r - 1]
           cu == IF r = 1 THEN 0 ELSE consecutiveUnchanged[r - 1]
       IN /\ page' = [page EXCEPT ![r] = p]
          /\ consecutiveUnchanged' = [consecutiveUnchanged EXCEPT ![r] = cu]
          /\ scanPage(r, p, [consecutiveUnchanged |-> cu, limit |-> UNCHANGED_LIMIT])
    /\ UNCHANGED storeVars

\* Lines 415-424: the run sets up its cursor and scans page 1.
RunStart(r) ==
    /\ pc[r] = "idle"
    /\ MayStart(r)
    /\ page' = [page EXCEPT ![r] = 1]
    /\ consecutiveUnchanged' = [consecutiveUnchanged EXCEPT ![r] = 0]
    /\ scanPage(r, 1, [consecutiveUnchanged |-> 0, limit |-> UNCHANGED_LIMIT])
    /\ UNCHANGED storeVars

\* The loop exit tests of lines 428-435.
RunEndsStopOnly(res) == res.stop

RunEnds(res) ==
    \/ res.stop
    \/ res.processed = 0 /\ res.consecutiveUnchanged = 0

\* The orchestrator starting every page with a counter of 0.
RunLoopResetsCounter(r, lastPage) ==
    /\ pc[r] = "returned"
    /\ consecutiveUnchanged' =
          [consecutiveUnchanged EXCEPT ![r] = result[r].consecutiveUnchanged]
    /\ IF RunEnds(result[r])
       THEN /\ pc' = [pc EXCEPT ![r] = "done"]
            /\ UNCHANGED <<page, calls, scanVars>>
       ELSE /\ page[r] < lastPage
            /\ page' = [page EXCEPT ![r] = @ + 1]
            /\ scanPage(r, page[r] + 1,
                        [consecutiveUnchanged |-> 0, limit |-> UNCHANGED_LIMIT])
    /\ UNCHANGED storeVars

\* Lines 426-438 and 421: the result of a scan is taken; the run ends or
\* scans the next page.
RunLoop(r, lastPage) ==
    /\ pc[r] = "returned"
    /\ consecutiveUnchanged' =
          [consecutiveUnchanged EXCEPT ![r] = result[r].consecutiveUnchanged]
    /\ IF RunEnds(result[r])
       THEN /\ pc' = [pc EXCEPT ![r] = "done"]
            /\ UNCHANGED <<page, calls, scanVars>>
       ELSE /\ page[r] < lastPage
            /\ page' = [page EXCEPT ![r] = @ + 1]
            /\ scanPage(r, page[r] + 1,
                        [consecutiveUnchanged |-> result[r].consecutiveUnchanged,
                         limit |-> UNCHANGED_LIMIT])
    /\ UNCHANGED storeVars

\* ------------------------------------------------------------------------
\* A run of runScraper followed without a last page
\* ------------------------------------------------------------------------
\* The pages from MaxPage on are followed as one: the cursor and the list
\* of calls stay at MaxPage while the run goes from one of them to the next
\* (lines 426-438 and 421).
RunLoopBeyond(r) ==
    /\ pc[r] = "returned"
    /\ ~RunEnds(result[r])
    /\ page[r] = MaxPage
    /\ consecutiveUnchanged' =
          [consecutiveUnchanged EXCEPT ![r] = result[r].consecutiveUnchanged]
    /\ stopOptions' = [stopOptions EXCEPT
          ![r] = [consecutiveUnchanged |-> result[r].consecutiveUnchanged,
                  limit |-> UNCHANGED_LIMIT]]
    /\ pc' = [pc EXCEPT ![r] = "fetch"]
    /\ caught' = [caught EXCEPT ![r] = NULL]
    /\ items' = [items EXCEPT ![r] = 0]
    /\ idx' = [idx EXCEPT ![r] = 0]
    /\ processed' = [processed EXCEPT ![r] = 0]
    /\ currentConsecutiveUnchanged' = [currentConsecutiveUnchanged EXCEPT ![r] = 0]
    /\ newAnime' = [newAnime EXCEPT ![r] = NULL]
    /\ existingAnime' = [existingAnime EXCEPT ![r] = NULL]
    /\ scrapeError' = [scrapeError EXCEPT ![r] = NULL]
    /\ result' = [result EXCEPT ![r] = NULL]
    /\ upserts' = [upserts EXCEPT ![r] = 0]
    /\ UNCHANGED <<page, calls, storeVars>>

\* The listing fetch on a site whose pages before MaxPage may hold items
\* and whose later pages hold none: those are empty, answer 404 or cannot
\* be reached, which scanPage handles alike for every page number.
LiveListingOutcomes(p) ==
    IF p < MaxPage
    THEN ListingOutcomes(p, MaxItems)
    ELSE { [kind |-> "listing", items |-> 0],
           ErrorOf(ListingUrl(p), HttpResponse(404, "none")),
           ErrorOf(ListingUrl(p), NetFailure) }

ScanIdle ==
    /\ pc = [r \in Runs |-> "idle"]
    /\ page = [r \in Runs |-> 0]
    /\ consecutiveUnchanged = [r \in Runs |-> 0]
    /\ calls = [r \in Runs |-> <<>>]
    /\ stopOptions = [r \in Runs |-> NULL]
    /\ caught = [r \in Runs |-> NULL]
    /\ items = [r \in Runs |-> 0]
    /\ idx = [r \in Runs |-> 0]
    /\ processed = [r \in Runs |-> 0]
    /\ currentConsecutiveUnchanged = [r \in Runs |-> 0]
    /\ newAnime = [r \in Runs |-> NULL]
    /\ existingAnime = [r \in Runs |-> NULL]
    /\ scrapeError = [r \in Runs |-> NULL]
    /\ result = [r \in Runs |-> NULL]
    /\ upserts = [r \in Runs |-> 0]

StoreEmpty ==
    /\ animes = <<>>
    /\ notificationQueue = <<>>
    /\ now = 1

\* ------------------------------------------------------------------------
\* The playlist: parsePlaylistItem, processPlaylistItem, fetchAndParsePlaylist
\* ------------------------------------------------------------------------
VARIABLES
    plVideos,    \* `videos`: the li elements of the playlist fragment, in order
    plIdx,       \* number of elements videos.each has visited
    plAcc,       \* uniqueSubs, uniqueDubs and playerUrls of the call
    plOut        \* what fetchAndParsePlaylist returned

MaxEntries == 3     \* largest number of li elements in a playlist fragment

\* Texts are sequences of characters.
CharDigits == {"0", "1", "2", "3", "4", "5", "6", "7", "8", "9"}

\* An attribute of an element: absent (attr() yields undefined) or a text.
NoAttr == [present |-> FALSE, value |-> <<>>]
Attr(v) == [present |-> TRUE, value |-> v]

\* JavaScript truthiness of what attr() yields: undefined and "" are falsy.
Truthy(a) == a.present /\ a.value # <<>>

Li(id, file, text) == [id |-> id, file |-> file, text |-> text]

\* The li elements a playlist fragment is made of.
PlaylistEntries ==
    { Li(Attr(<<"0", "_", "0", "_", "1">>), Attr(<<"f1">>), <<"1">>),
      Li(Attr(<<"0", "_", "0", "_", "9">>), Attr(<<"f2">>), <<" ", "1", " ", "s">>),
      Li(Attr(<<"0", "_", "1", "_", "1">>), Attr(<<"f1">>), <<"1">>),
      Li(Attr(<<"0", "_", "1", "_", "2">>), Attr(<<"f2">>), <<"2">>),
      Li(Attr(<<"0", "_", "1", "_", "3">>), Attr(<<"f3">>), <<"s">>),
      Li(Attr(<<"0", "_", "2", "_", "1">>), Attr(<<"f1">>), <<"3">>),
      Li(Attr(<<"0", "_", "0", "_", "2">>), NoAttr, <<"2">>),
      Li(Attr(<<>>), Attr(<<"f1">>), <<"2">>),
      Li(NoAttr, Attr(<<"f1">>), <<"2">>) }

\* String.prototype.trim
RECURSIVE TrimStart(_)
TrimStart(t) == IF t # <<>> /\ Head(t) = " " THEN TrimStart(Tail(t)) ELSE t

RECURSIVE TrimEnd(_)
TrimEnd(t) ==
    IF t # <<>> /\ t[Len(t)] = " " THEN TrimEnd(SubSeq(t, 1, Len(t) - 1)) ELSE t

Trim(t) == TrimEnd(TrimStart(t))

\* EPISODE_NUM_REGEX = /^(\d+)/: the leading run of digits, <<>> when the
\* text does not start with a digit (no match).
RECURSIVE LeadingDigits(_)
LeadingDigits(t) ==
    IF t # <<>> /\ Head(t) \in CharDigits
    THEN <<Head(t)>> \o LeadingDigits(Tail(t))
    ELSE <<>>

\* String.prototype.startsWith
StartsWith(t, prefix) ==
    Len(t) >= Len(prefix) /\ SubSeq(t, 1, Len(prefix)) = prefix

DubPrefix == <<"0", "_", "0", "_">>
SubPrefix == <<"0", "_", "1", "_">>

\* parsePlaylistItem (lines 90-107): null unless the element has both
\* data-id and data-file.
parsePlaylistItem(el) ==
    LET text == Trim(el.text)
        epNumMatch == LeadingDigits(text)
    IN IF ~(Truthy(el.id) /\ Truthy(el.file))
       THEN NULL
       ELSE [kind |-> "item", id |-> el.id.value, file |-> el.file.value,
             text |-> text,
             epNum |-> IF epNumMatch # <<>> THEN epNumMatch ELSE text]

EmptyPlaylist == [uniqueSubs |-> {}, uniqueDubs |-> {}, playerUrls |-> <<>>]

processPlaylistItemRawCount(item, acc) ==
    [uniqueSubs |-> IF StartsWith(item.id, SubPrefix)
                    THEN acc.uniqueSubs \cup {item.id} ELSE acc.uniqueSubs,
     uniqueDubs |-> IF StartsWith(item.id, DubPrefix)
                    THEN acc.uniqueDubs \cup {item.id} ELSE acc.uniqueDubs,
     playerUrls |-> Append(acc.playerUrls,
                           [id |-> item.id, text |-> item.text, file |-> item.file])]

\* processPlaylistItem (lines 109-126) applied to the three collections.
processPlaylistItem(item, acc) ==
    [uniqueSubs |-> IF ~StartsWith(item.id, DubPrefix) /\ StartsWith(item.id, SubPrefix)
                    THEN acc.uniqueSubs \cup {item.epNum} ELSE acc.uniqueSubs,
     uniqueDubs |-> IF StartsWith(item.id, DubPrefix)
                    THEN acc.uniqueDubs \cup {item.epNum} ELSE acc.uniqueDubs,
     playerUrls |-> Append(acc.playerUrls,
                           [id |-> item.id, text |-> item.text, file |-> item.file])]

\* The callback of videos.each (lines 159-164) applied to one element.
EachVideo(el, acc) ==
    LET item == parsePlaylistItem(el)
    IN IF item # NULL THEN processPlaylistItem(item, acc) ELSE acc

\* The returned object counting sources instead of episodes.
PlaylistDataCountsSources(acc) ==
    [subbed |-> IF acc.uniqueSubs = {} THEN 0 ELSE Len(acc.playerUrls),
     dubbed |-> Cardinality(acc.uniqueDubs),
     playerUrls |-> acc.playerUrls]

\* Lines 171-175: the object fetchAndParsePlaylist returns.
PlaylistData(acc) ==
    [subbed |-> Cardinality(acc.uniqueSubs),
     dubbed |-> Cardinality(acc.uniqueDubs),
     playerUrls |-> acc.playerUrls]

playlistVars == <<plVideos, plIdx, plAcc, plOut>>

PlaylistIdle ==
    /\ plVideos = <<>>
    /\ plIdx = 0
    /\ plAcc = EmptyPlaylist
    /\ plOut = NULL

\* fetchAndParsePlaylist has received a successful response whose fragment
\* holds the elements `videos` (lines 133-158).
PlaylistLoaded(videos) ==
    /\ plVideos = videos
    /\ plIdx = 0
    /\ plAcc = EmptyPlaylist
    /\ plOut = NULL

\* One round of videos.each.
PlaylistEach ==
    /\ plOut = NULL
    /\ plIdx < Len(plVideos)
    /\ plIdx' = plIdx + 1
    /\ plAcc' = EachVideo(plVideos[plIdx + 1], plAcc)
    /\ UNCHANGED <<plVideos, plOut>>

\* Lines 171-175, after the last element.
PlaylistReturn ==
    /\ plOut = NULL
    /\ plIdx = Len(plVideos)
    /\ plOut' = PlaylistData(plAcc)
    /\ UNCHANGED <<plVideos, plIdx, plAcc>>

\* ------------------------------------------------------------------------
\* The subscriptions table and the change events (convex/animes.ts 114-203)
\* ------------------------------------------------------------------------
VARIABLES
    subscriptions     \* table "subscriptions", in insertion order

Subscription(chatId, animeUrl, type, title) ==
    [telegramChatId |-> chatId, animeUrl |-> animeUrl, type |-> type, title |-> title]

\* The rows the index by_chat_and_url yields for a pair.
SubsOfPair(chatId, animeUrl) ==
    { i \in 1..Len(subscriptions) :
        /\ subscriptions[i].telegramChatId = chatId
        /\ subscriptions[i].animeUrl = animeUrl }

\* The sequence s without its element at position i.
RemoveAt(s, i) == SubSeq(s, 1, i - 1) \o SubSeq(s, i + 1, Len(s))

subscribeAlwaysInserts(args) ==
    subscriptions' = Append(subscriptions, args)

\* The subscribe mutation (lines 128-151).
subscribe(args) ==
    LET rows == SubsOfPair(args.telegramChatId, args.animeUrl)
    IN IF rows # {}
       THEN LET existing == CHOOSE i \in rows : TRUE
            IN subscriptions' = [subscriptions EXCEPT
                                    ![existing].type = args.type,
                                    ![existing].title = args.title]
       ELSE subscriptions' = Append(subscriptions, args)

\* The unsubscribe mutation (lines 159-178).
unsubscribe(args) ==
    LET rows == SubsOfPair(args.telegramChatId, args.animeUrl)
    IN IF rows # {}
       THEN subscriptions' = RemoveAt(subscriptions, CHOOSE i \in rows : TRUE)
       ELSE subscriptions' = subscriptions

\* getSubscribersByUrl (lines 197-203): the rows of a url, in table order.
getSubscribersByUrl(animeUrl) ==
    SelectSeq(subscriptions, LAMBDA row : row.animeUrl = animeUrl)

\* getPendingNotifications (lines 94-101): the _id of every pending event,
\* in table order; an event's _id is its position in the table.
RECURSIVE PendingFrom(_)
PendingFrom(i) ==
    IF i > Len(notificationQueue) THEN <<>>
    ELSE IF notificationQueue[i].status = "pending"
         THEN <<i>> \o PendingFrom(i + 1)
         ELSE PendingFrom(i + 1)

getPendingNotifications == PendingFrom(1)

\* markNotificationProcessed (lines 107-112)
markNotificationProcessed(id) ==
    notificationQueue' = [notificationQueue EXCEPT ![id].status = "processed"]

subsVars == <<subscriptions>>

SubsIdle == subscriptions = <<>>

\* What the bot's handlers pass to subscribe and unsubscribe.
ChatIds == {1, 2}
AnimeUrls == {"/a", "/b"}
SubscriptionTypes == {"sub", "dub", "all"}
Titles == {"t1", "t2"}

SubscribeInputs ==
    { Subscription(c, u, ty, t) :
        c \in ChatIds, u \in AnimeUrls, ty \in SubscriptionTypes, t \in Titles }

UnsubscribeInputs ==
    { [telegramChatId |-> c, animeUrl |-> u] : c \in ChatIds, u \in AnimeUrls }

\* What the scraper may pass to upsert: any record of /a, and records of
\* /b that differ in the subbed count only.
UpsertInputs ==
    { Anime("/a", t, "d1", "i1", s, b, p, 1) :
        t \in Titles, s \in 0..MaxEp, b \in 0..MaxEp, p \in { <<>>, <<PlayerA>> } }
    \cup { Anime("/b", "t1", "d1", "i1", s, 0, <<PlayerA>>, 1) : s \in 0..MaxEp }

\* ------------------------------------------------------------------------
\* The bot's notification poller: src/src/bot.ts
\* ------------------------------------------------------------------------
VARIABLES
    bPc,                   \* "idle" | "notifications" | "subscribers" | "send"
    pendingNotifications,  \* the _ids the getPendingNotifications query returned
    nIdx,                  \* number of notifications the outer loop has taken
    subscribers,           \* what getSubscribersByUrl returned for the current one
    sIdx,                  \* number of subscribers the inner loop has taken
    botMessage,            \* const message of the current subscriber
    delivered,             \* <<event _id, chat>> of every sendMessage that succeeded
    resent                 \* those of them for which a sendMessage succeeded again

\* getNotificationMessage (lines 48-84): the text, or null.
MessageText(msg, title, animeUrl) == <<msg, title, "!", "\n", animeUrl>>

getNotificationMessageSameTypeOnly(subType, notificationType, title, animeUrl) ==
    IF subType = notificationType
    THEN MessageText("New episode for ", title, animeUrl)
    ELSE NULL

getNotificationMessage(subType, notificationType, title, animeUrl) ==
    IF subType = "all"
    THEN IF notificationType = "all"
         THEN MessageText("New Sub & Dub episodes for ", title, animeUrl)
         ELSE IF notificationType = "sub"
         THEN MessageText("New Sub episode for ", title, animeUrl)
         ELSE MessageText("New Dub episode for ", title, animeUrl)
    ELSE IF subType = "sub" /\ (notificationType = "sub" \/ notificationType = "all")
    THEN MessageText("New Sub episode for ", title, animeUrl)
    ELSE IF subType = "dub" /\ (notificationType = "dub" \/ notificationType = "all")
    THEN MessageText("New Dub episode for ", title, animeUrl)
    ELSE NULL

botVars == <<bPc, pendingNotifications, nIdx, subscribers, sIdx, botMessage, delivered,
            resent>>

BotIdle ==
    /\ bPc = "idle"
    /\ pendingNotifications = <<>>
    /\ nIdx = 0
    /\ subscribers = <<>>
    /\ sIdx = 0
    /\ botMessage = NULL
    /\ delivered = {}
    /\ resent = {}

\* The notification and the subscriber the loops are at.
CurrentNotification == notificationQueue[pendingNotifications[nIdx]]
CurrentSubscriber == subscribers[sIdx]

\* processNotifications is started by the timer (line 283) and queries the
\* pending notifications (lines 94-103).
BotPoll ==
    /\ bPc = "idle"
    /\ pendingNotifications' = getPendingNotifications
    /\ nIdx' = 0
    /\ bPc' = "notifications"
    /\ UNCHANGED <<subscribers, sIdx, botMessage, delivered, resent, notificationQueue>>

\* Lines 105-109: the outer loop takes the next notification and queries
\* its subscribers; after the last one the poll is over.
BotNextNotification ==
    /\ bPc = "notifications"
    /\ IF nIdx < Len(pendingNotifications)
       THEN /\ nIdx' = nIdx + 1
            /\ subscribers' = getSubscribersByUrl(
                  notificationQueue[pendingNotifications[nIdx + 1]].animeUrl)
            /\ sIdx' = 0
            /\ bPc' = "subscribers"
            /\ UNCHANGED pendingNotifications
       ELSE /\ bPc' = "idle"
            /\ pendingNotifications' = <<>>
            /\ nIdx' = 0
            /\ UNCHANGED <<subscribers, sIdx>>
    /\ UNCHANGED <<botMessage, delivered, resent, notificationQueue>>

\* Lines 111-117: the inner loop takes the next subscriber and computes the
\* message.
BotNextSubscriber ==
    /\ bPc = "subscribers"
    /\ sIdx < Len(subscribers)
    /\ sIdx' = sIdx + 1
    /\ botMessage' = getNotificationMessage(subscribers[sIdx + 1].type,
                                            CurrentNotification.type,
                                            CurrentNotification.title,
                                            CurrentNotification.animeUrl)
    /\ bPc' = "send"
    /\ UNCHANGED <<pendingNotifications, nIdx, subscribers, delivered, resent,
                   notificationQueue>>

\* Lines 119-128: no message, or sendMessage succeeds or throws; a throw
\* is caught and logged.
BotSend(succeeds) ==
    /\ bPc = "send"
    /\ delivered' = IF botMessage # NULL /\ succeeds
                    THEN delivered \cup
                            {<<pendingNotifications[nIdx], CurrentSubscriber.telegramChatId>>}
                    ELSE delivered
    /\ resent' = IF botMessage # NULL /\ succeeds
                 THEN resent \cup
                         ({<<pendingNotifications[nIdx], CurrentSubscriber.telegramChatId>>}
                             \cap delivered)
                 ELSE resent
    /\ botMessage' = NULL
    /\ bPc' = "subscribers"
    /\ UNCHANGED <<pendingNotifications, nIdx, subscribers, sIdx, notificationQueue>>

\* Lines 131-133, after the last subscriber.
BotMark ==
    /\ bPc = "subscribers"
    /\ sIdx = Len(subscribers)
    /\ markNotificationProcessed(pendingNotifications[nIdx])
    /\ subscribers' = <<>>
    /\ sIdx' = 0
    /\ bPc' = "notifications"
    /\ UNCHANGED <<pendingNotifications, nIdx, botMessage, delivered, resent>>

\* Lines 131-137: the markNotificationProcessed mutation throws; the outer
\* catch logs the error and the invocation is over, the event still pending.
BotMarkThrows ==
    /\ bPc = "subscribers"
    /\ sIdx = Len(subscribers)
    /\ bPc' = "idle"
    /\ pendingNotifications' = <<>>
    /\ nIdx' = 0
    /\ subscribers' = <<>>
    /\ sIdx' = 0
    /\ UNCHANGED <<botMessage, delivered, resent, notificationQueue>>

\* The sendMessage calls the loops of lines 105-129 make for the events ids:
\* one for every subscriber of the event's url with a message.
SendsFor(ids) ==
    { <<p[1], subscriptions[p[2]].telegramChatId>> :
        p \in { q \in ids \X (1..Len(subscriptions)) :
                  /\ subscriptions[q[2]].animeUrl = notificationQueue[q[1]].animeUrl
                  /\ getNotificationMessage(subscriptions[q[2]].type,
                                            notificationQueue[q[1]].type,
                                            notificationQueue[q[1]].title,
                                            notificationQueue[q[1]].animeUrl) # NULL } }

\* Line 283: the timer starts processNotifications again while an earlier
\* invocation is suspended at one of its awaits, and the later invocation
\* runs to its end before the earlier one resumes. It marks the first
\* marked of the pending events; when these are not all, the mutation throws
\* for the next one, after its messages were sent. ok are the sends that
\* succeed.
BotOverlappingPoll(marked, ok) ==
    /\ bPc # "idle"
    /\ marked \in 0..Len(getPendingNotifications)
    /\ LET pend == getPendingNotifications
           reached == IF marked < Len(pend) THEN marked + 1 ELSE marked
           ids == { pend[i] : i \in 1..reached }
       IN  /\ ok \in SUBSET SendsFor(ids)
           /\ delivered' = delivered \cup ok
           /\ resent' = resent \cup (ok \cap delivered)
           /\ notificationQueue' =
                 [ id \in 1..Len(notificationQueue) |->
                     IF id \in { pend[i] : i \in 1..marked }
                     THEN [notificationQueue[id] EXCEPT !.status = "processed"]
                     ELSE notificationQueue[id] ]
    /\ UNCHANGED <<bPc, pendingNotifications, nIdx, subscribers, sIdx, botMessage>>

\* The stores the poller may find: each chat holds no subscription or one,
\* the queue some pending events of the two recorded animes.
BotSubscriptionsOf(c) ==
    { <<>> } \cup { <<Subscription(c, u, ty, "t1")>> :
                      u \in AnimeUrls, ty \in SubscriptionTypes }

BotTables == { s1 \o s2 : s1 \in BotSubscriptionsOf(1), s2 \in BotSubscriptionsOf(2) }

EventInputs ==
    { [animeUrl |-> u, title |-> "t1", type |-> ty, status |-> "pending",
       createdAt |-> 1] : u \in AnimeUrls, ty \in SubscriptionTypes }

BotAnimes ==
    << Anime("/a", "t1", "d1", "i1", 1, 1, <<PlayerA>>, 1),
       Anime("/b", "t1", "d1", "i1", 1, 1, <<PlayerA>>, 1) >>

\* ------------------------------------------------------------------------
\* parseAnimeDetails over the responses of the site (lines 193-254)
\* ------------------------------------------------------------------------
VARIABLES
    siteHtml,       \* what the site answers to the fetch of the detail page
    sitePlaylist,   \* what the site answers to the playlist request
    extracted,      \* the records parseAnimeDetails has returned, in order
    outcomes,       \* what processAnime has returned, in order
    playlistFetches \* number of requests made to playlists.php

MaxClock == 2       \* latest time of the clock
MaxScans == 2       \* largest number of processAnime calls for the item

\* videos.each over the whole fragment, first element first.
RECURSIVE EachOfVideos(_, _)
EachOfVideos(videos, acc) ==
    IF videos = <<>> THEN acc
    ELSE EachOfVideos(Tail(videos), EachVideo(Head(videos), acc))

\* What the playlist request can end in: fetch() throws, a response that is
\* not ok, a body that is not JSON, JSON without success (with or without a
\* fragment), or JSON whose
\* response is a fragment holding `videos` (nothing, a sub entry, an entry
\* of another prefix, or two dub entries and a sub entry).
PlaylistJson(videos) == [kind |-> "json", success |-> TRUE, videos |-> videos]

PlaylistResponses ==
    { [kind |-> k, success |-> FALSE, videos |-> <<>>] :
        k \in {"netfail", "notok", "badjson", "json"} }
    \cup { [kind |-> "json", success |-> FALSE,
            videos |-> << Li(Attr(<<"0", "_", "1", "_", "1">>), Attr(<<"f1">>), <<"1">>) >>] }
    \cup { PlaylistJson(v) : v \in
            { <<>>,
              << Li(Attr(<<"0", "_", "1", "_", "1">>), Attr(<<"f1">>), <<"1">>) >>,
              << Li(Attr(<<"1", "_", "0", "_", "1">>), Attr(<<"f1">>), <<"1">>) >>,
              << Li(Attr(<<"0", "_", "0", "_", "1">>), Attr(<<"f1">>), <<"1">>),
                 Li(Attr(<<"0", "_", "0", "_", "9">>), Attr(<<"f2">>), <<"1">>),
                 Li(Attr(<<"0", "_", "1", "_", "1">>), Attr(<<"f1">>), <<"1">>) >> } }

\* The playlist step reading the fragment of a response without success.
fetchAndParsePlaylistIgnoresSuccess(resp) ==
    IF resp.kind = "json"
    THEN PlaylistData(EachOfVideos(resp.videos, EmptyPlaylist))
    ELSE PlaylistData(EmptyPlaylist)

\* fetchAndParsePlaylist (lines 128-176) for the response resp.
fetchAndParsePlaylist(resp) ==
    IF resp.kind = "json" /\ resp.success
    THEN PlaylistData(EachOfVideos(resp.videos, EmptyPlaylist))
    ELSE PlaylistData(EmptyPlaylist)

\* What the detail page shows: the src of its image, the login hash and the
\* news id in its script, the news id on its playlist container, and the
\* episode count of its meta text ("" and NoCount when missing).
NoCount == [matched |-> FALSE, count |-> 0]
Count(n) == [matched |-> TRUE, count |-> n]

DetailPages ==
    { [description |-> "d1", imageSrc |-> src, loginHash |-> h, dataNewsId |-> dn,
       scriptNewsId |-> sn, metaCount |-> m] :
        src \in { NoAttr, Attr(<<"/", "i.png">>), Attr(<<"http://x/", "i.png">>) },
        h \in {"", "h1"}, dn \in {"", "7"}, sn \in {"", "8"},
        m \in { NoCount, Count(2) } }

\* The extraction taking the meta count whenever the dubbed count is zero.
scrapeDetailsFallbackOnDubOnly(html, playlistResp) ==
    LET imageUrl == IF html.imageSrc.present /\ StartsWithSlash(html.imageSrc.value)
                    THEN Attr(<<BASE_URL>> \o html.imageSrc.value)
                    ELSE html.imageSrc
        userHash == html.loginHash
        newsId == IF html.dataNewsId # "" THEN html.dataNewsId ELSE html.scriptNewsId
        playlistData == IF userHash # "" /\ newsId # ""
                        THEN fetchAndParsePlaylist(playlistResp)
                        ELSE PlaylistData(EmptyPlaylist)
        fallback == playlistData.dubbed = 0 /\ html.metaCount.matched
    IN [description |-> html.description,
        imageUrl |-> imageUrl,
        subbedEpisodes |-> playlistData.subbed,
        dubbedEpisodes |-> IF fallback THEN html.metaCount.count
                           ELSE playlistData.dubbed,
        playerUrls |-> playlistData.playerUrls]

\* Lines 200-238: what parseAnimeDetails reads from the page html and the
\* playlist response.
scrapeDetails(html, playlistResp) ==
    LET imageUrl == IF html.imageSrc.present /\ StartsWithSlash(html.imageSrc.value)
                    THEN Attr(<<BASE_URL>> \o html.imageSrc.value)
                    ELSE html.imageSrc
        userHash == html.loginHash
        newsId == IF html.dataNewsId # "" THEN html.dataNewsId ELSE html.scriptNewsId
        playlistData == IF userHash # "" /\ newsId # ""
                        THEN fetchAndParsePlaylist(playlistResp)
                        ELSE PlaylistData(EmptyPlaylist)
        fallback == playlistData.subbed = 0 /\ playlistData.dubbed = 0
                    /\ html.metaCount.matched
    IN [description |-> html.description,
        imageUrl |-> imageUrl,
        subbedEpisodes |-> playlistData.subbed,
        dubbedEpisodes |-> IF fallback THEN html.metaCount.count
                           ELSE playlistData.dubbed,
        playerUrls |-> playlistData.playerUrls]

rescanVars == <<siteHtml, sitePlaylist, extracted, outcomes, playlistFetches>>

RescanIdle ==
    /\ siteHtml = NULL
    /\ sitePlaylist = NULL
    /\ extracted = <<>>
    /\ outcomes = <<>>
    /\ playlistFetches = 0

\* processAnime(link, title) (lines 256-282), from the extraction to the
\* result, when the detail request ends in html (a page or a thrown error)
\* and the playlist request, if made, in playlistResp.
ProcessAnimeOn(link, title, html, playlistResp) ==
    /\ Len(outcomes) < MaxScans
    /\ LET fresh == parseAnimeDetails(link, title,
                        IF Thrown(html) THEN html
                        ELSE scrapeDetails(html, playlistResp), now)
           existing == getByUrl(link)
       IN /\ extracted' = Append(extracted, fresh)
          /\ playlistFetches' =
                IF ~Thrown(html) /\ html.loginHash # ""
                   /\ (html.dataNewsId # "" \/ html.scriptNewsId # "")
                THEN playlistFetches + 1
                ELSE playlistFetches
          /\ IF fresh # NULL /\ HasChanged(existing, fresh)
             THEN /\ upsert(fresh)
                  /\ outcomes' = Append(outcomes, "UPDATED")
             ELSE /\ UNCHANGED <<animes, notificationQueue>>
                  /\ outcomes' = Append(outcomes, "UNCHANGED")
    /\ UNCHANGED <<siteHtml, sitePlaylist, now>>

\* processAnime against a site that answers every request with what it holds.
ProcessAnime(link, title) == ProcessAnimeOn(link, title, siteHtml, sitePlaylist)

\* Time passes.
Tick ==
    /\ now < MaxClock
    /\ now' = now + 1
    /\ UNCHANGED <<animes, notificationQueue, rescanVars>>

\* ------------------------------------------------------------------------
\* The bot's command and callback handlers: src/src/bot.ts 161-275
\* ------------------------------------------------------------------------
VARIABLES
    pendingSubscriptions,  \* the Map of line 17: chat -> { url, title }, NULL when absent
    accepted,              \* per chat, the /subscribe commands that set an entry
    issued,                \* per chat, the subscribe mutations its callbacks issued
    answers                \* per chat, the text of the last answerCallbackQuery

MaxCommands == 2    \* largest number of /subscribe commands accepted in all

\* ctx.chat?.id of an update: a chat, or 0 when the update has none.
UpdateChats == ChatIds \cup {0}

\* ctx.match of a command: nothing, a url of another site, urls of the site.
CommandUrls ==
    { <<>>,
      <<"https://", "example.org", "/", "1", "-", "a", ".html">>,
      <<"https://", "anitube.in.ua", "/", "1", "-", "a", "-", "b", ".html">>,
      <<"https://", "anitube.in.ua", "/", "b">> }

\* url.includes("anitube.in.ua")
IncludesSite(url) == \E i \in 1..Len(url) : url[i] = "anitube.in.ua"

\* Lines 180-188: the stored title, else the text TITLE_EXTRACT_REGEX finds
\* between "/<digits>-" and ".html" with every "-" replaced, else the url.
SubscribeTitle(url) ==
    LET anime == getByUrl(url)
        starts == { i \in 1..Len(url) - 3 :
                      /\ url[i] = "/"
                      /\ url[i + 1] \in { DigitChar(d) : d \in 0..9 }
                      /\ url[i + 2] = "-"
                      /\ \E j \in i + 4..Len(url) : url[j] = ".html" }
    IN IF anime # NULL /\ anime.title # ""
       THEN <<anime.title>>
       ELSE IF starts = {}
       THEN url
       ELSE LET i == CHOOSE k \in starts : \A l \in starts : k <= l
                j == CHOOSE k \in i + 4..Len(url) :
                        /\ url[k] = ".html"
                        /\ \A l \in i + 4..k - 1 : url[l] # ".html"
                slug == SubSeq(url, i + 3, j - 1)
            IN [k \in 1..Len(slug) |-> IF slug[k] = "-" THEN " " ELSE slug[k]]

chatVars == <<pendingSubscriptions, accepted, issued, answers>>

\* The number of /subscribe commands accepted so far from the chats of S.
RECURSIVE AcceptedFrom(_)
AcceptedFrom(S) ==
    IF S = {} THEN 0
    ELSE LET c == CHOOSE x \in S : TRUE IN accepted[c] + AcceptedFrom(S \ {c})

ChatIdle ==
    /\ pendingSubscriptions = [c \in ChatIds |-> NULL]
    /\ accepted = [c \in ChatIds |-> 0]
    /\ issued = [c \in ChatIds |-> 0]
    /\ answers = [c \in ChatIds |-> "none"]

\* bot.command("subscribe") (lines 167-202) for the update of chat with
\* ctx.match = url.
BotSubscribeCommand(chat, url) ==
    /\ IF url # <<>> /\ IncludesSite(url) /\ chat # 0
       THEN /\ AcceptedFrom(ChatIds) < MaxCommands
            /\ pendingSubscriptions' = [pendingSubscriptions EXCEPT
                  ![chat] = [url |-> url, title |-> SubscribeTitle(url)]]
            /\ accepted' = [accepted EXCEPT ![chat] = @ + 1]
       ELSE UNCHANGED <<pendingSubscriptions, accepted>>
    /\ UNCHANGED <<subscriptions, issued, answers>>

\* The callback handler leaving the entry of the chat in the Map.
BotCallbackQueryKeepsPending(chat, type) ==
    IF chat = 0
    THEN UNCHANGED <<subscriptions, chatVars>>
    ELSE IF pendingSubscriptions[chat] = NULL
    THEN /\ answers' = [answers EXCEPT ![chat] = "Session expired. Please try /subscribe again."]
         /\ UNCHANGED <<subscriptions, pendingSubscriptions, accepted, issued>>
    ELSE /\ subscribe(Subscription(chat, pendingSubscriptions[chat].url, type,
                                   pendingSubscriptions[chat].title))
         /\ issued' = [issued EXCEPT ![chat] = @ + 1]
         /\ answers' = [answers EXCEPT ![chat] = "Subscribed"]
         /\ UNCHANGED <<pendingSubscriptions, accepted>>

\* bot.callbackQuery (lines 204-234) for the update of chat with
\* ctx.match[0] = type.
BotCallbackQuery(chat, type) ==
    IF chat = 0
    THEN UNCHANGED <<subscriptions, chatVars>>
    ELSE IF pendingSubscriptions[chat] = NULL
    THEN /\ answers' = [answers EXCEPT ![chat] = "Session expired. Please try /subscribe again."]
         /\ UNCHANGED <<subscriptions, pendingSubscriptions, accepted, issued>>
    ELSE /\ subscribe(Subscription(chat, pendingSubscriptions[chat].url, type,
                                   pendingSubscriptions[chat].title))
         /\ issued' = [issued EXCEPT ![chat] = @ + 1]
         /\ pendingSubscriptions' = [pendingSubscriptions EXCEPT ![chat] = NULL]
         /\ answers' = [answers EXCEPT ![chat] = "Subscribed"]
         /\ UNCHANGED accepted

\* bot.command("unsubscribe") (lines 236-251)
BotUnsubscribeCommand(chat, url) ==
    /\ chat # 0
    /\ IF url # <<>>
       THEN unsubscribe([telegramChatId |-> chat, animeUrl |-> url])
       ELSE UNCHANGED subscriptions
    /\ UNCHANGED chatVars

\* The site gains a playlist entry of the item: a further source of the
\* latest episode or the first source of the next one.
SiteGrows ==
    /\ Len(sitePlaylist.videos) < 1 + MaxGrowth
    /\ \E ep \in { fetchAndParsePlaylist(sitePlaylist).subbed,
                   fetchAndParsePlaylist(sitePlaylist).subbed + 1 } \ {0} :
          sitePlaylist' = PlaylistJson(Append(sitePlaylist.videos,
              Li(Attr(SubPrefix \o <<DigitChar(Len(sitePlaylist.videos) + 1)>>),
                 Attr(<<"f1">>), <<DigitChar(ep)>>)))
    /\ UNCHANGED <<siteHtml, extracted, outcomes, playlistFetches>>

auxVars == <<playlistVars, subsVars, botVars, rescanVars, chatVars>>

AuxIdle == PlaylistIdle /\ SubsIdle /\ BotIdle /\ RescanIdle /\ ChatIdle

\* ------------------------------------------------------------------------
\* Specifications
\* ------------------------------------------------------------------------
vars == <<fetchVars, changedVars, runVars, scanVars, storeVars, auxVars>>
scraperVars == <<runVars, scanVars, storeVars>>

InitFetch ==
    /\ \E url \in FetchUrls, headers \in FetchHeaders, retries \in 0..MaxRetries :
          fetchPage(url, headers, retries)
    /\ ChangedIdle
    /\ ScanIdle
    /\ StoreEmpty
    /\ AuxIdle

NextFetch ==
    \/ (\E resp \in Responses : FetchAttempt(resp)) /\ UNCHANGED <<changedVars, scraperVars, auxVars>>
    \/ FetchWait10 /\ UNCHANGED <<changedVars, scraperVars, auxVars>>
    \/ FetchWait3 /\ UNCHANGED <<changedVars, scraperVars, auxVars>>
    \/ FetchUnwind /\ UNCHANGED <<changedVars, scraperVars, auxVars>>

SpecFetch == InitFetch /\ [][NextFetch]_vars

InitChanged ==
    /\ FetchIdle
    /\ cOld \in OldAnimeInputs
    /\ cNew \in NewAnimeInputs
    /\ cResult = <<>>
    /\ ScanIdle
    /\ StoreEmpty
    /\ AuxIdle

NextChanged == Compare /\ UNCHANGED <<fetchVars, scraperVars, auxVars>>

SpecChanged == InitChanged /\ [][NextChanged]_vars

\* One direct call scanPage(p, {consecutiveUnchanged: cu, limit}) of the
\* exported function, against a store that holds nothing or one record.
ScanPageInputs == {1, 40, 404}

InitialStores ==
    { <<>> } \cup { <<Anime("/a", "t1", "d1", "i1", d.subbedEpisodes,
                            d.dubbedEpisodes, d.playerUrls, 1)>> : d \in Details }

InitScanPage ==
    /\ FetchIdle
    /\ ChangedIdle
    /\ \E p \in ScanPageInputs, cu \in 0..MaxLimit, limit \in 1..MaxLimit :
          /\ pc = [r \in Runs |-> IF r = 1 THEN "fetch" ELSE "idle"]
          /\ page = [r \in Runs |-> IF r = 1 THEN p ELSE 0]
          /\ calls = [r \in Runs |-> IF r = 1 THEN <<p>> ELSE <<>>]
          /\ stopOptions = [r \in Runs |->
                IF r = 1 THEN [consecutiveUnchanged |-> cu, limit |-> limit]
                ELSE NULL]
    /\ consecutiveUnchanged = [r \in Runs |-> 0]
    /\ caught = [r \in Runs |-> NULL]
    /\ items = [r \in Runs |-> 0]
    /\ idx = [r \in Runs |-> 0]
    /\ processed = [r \in Runs |-> 0]
    /\ currentConsecutiveUnchanged = [r \in Runs |-> 0]
    /\ newAnime = [r \in Runs |-> NULL]
    /\ existingAnime = [r \in Runs |-> NULL]
    /\ scrapeError = [r \in Runs |-> NULL]
    /\ result = [r \in Runs |-> NULL]
    /\ upserts = [r \in Runs |-> 0]
    /\ animes \in InitialStores
    /\ notificationQueue = <<>>
    /\ now = 1
    /\ AuxIdle

NextScanPage ==
    \/ (\E out \in ListingOutcomes(page[1], MaxItems) : ScanFetchListing(1, out))
          /\ UNCHANGED <<fetchVars, changedVars, auxVars>>
    \/ (\E el \in Elements : ScanSkipElement(1, el))
          /\ UNCHANGED <<fetchVars, changedVars, auxVars>>
    \/ (\E el \in Elements :
           \E d \in Details \cup DetailFailures(el.link) : ScanExtract(1, el, d))
          /\ UNCHANGED <<fetchVars, changedVars, auxVars>>
    \/ ScanEndOfPage(1) /\ UNCHANGED <<fetchVars, changedVars, auxVars>>
    \/ processAnimeNull(1) /\ UNCHANGED <<fetchVars, changedVars, auxVars>>
    \/ processAnimeQuery(1) /\ UNCHANGED <<fetchVars, changedVars, auxVars>>
    \/ processAnimeDecide(1) /\ UNCHANGED <<fetchVars, changedVars, auxVars>>

SpecScanPage == InitScanPage /\ [][NextScanPage]_vars

\* The service of index.ts: runs of runScraper over an initially empty store.
Init ==
    /\ FetchIdle
    /\ ChangedIdle
    /\ ScanIdle
    /\ StoreEmpty
    /\ AuxIdle

Next ==
    \E r \in Runs :
        \/ RunStart(r) /\ UNCHANGED <<fetchVars, changedVars, auxVars>>
        \/ RunLoop(r, MaxPage) /\ UNCHANGED <<fetchVars, changedVars, auxVars>>
        \/ (\E out \in ListingOutcomes(page[r], RunMaxItems) : ScanFetchListing(r, out))
              /\ UNCHANGED <<fetchVars, changedVars, auxVars>>
        \/ (\E el \in RunElements : ScanSkipElement(r, el))
              /\ UNCHANGED <<fetchVars, changedVars, auxVars>>
        \/ (\E el \in RunElements :
               \E d \in RunDetails \cup RunDetailFailures(el.link) : ScanExtract(r, el, d))
              /\ UNCHANGED <<fetchVars, changedVars, auxVars>>
        \/ ScanEndOfPage(r) /\ UNCHANGED <<fetchVars, changedVars, auxVars>>
        \/ processAnimeNull(r) /\ UNCHANGED <<fetchVars, changedVars, auxVars>>
        \/ processAnimeQuery(r) /\ UNCHANGED <<fetchVars, changedVars, auxVars>>
        \/ processAnimeDecide(r) /\ UNCHANGED <<fetchVars, changedVars, auxVars>>

Spec == Init /\ [][Next]_vars

\* fetchAndParsePlaylist over an arbitrary playlist fragment.
InitPlaylist ==
    /\ FetchIdle
    /\ ChangedIdle
    /\ ScanIdle
    /\ StoreEmpty
    /\ \E videos \in SeqsUpTo(PlaylistEntries, MaxEntries) : PlaylistLoaded(videos)
    /\ SubsIdle
    /\ BotIdle
    /\ RescanIdle
    /\ ChatIdle

NextPlaylist ==
    \/ PlaylistEach /\ UNCHANGED <<fetchVars, changedVars, scraperVars, subsVars, botVars, rescanVars, chatVars>>
    \/ PlaylistReturn /\ UNCHANGED <<fetchVars, changedVars, scraperVars, subsVars, botVars, rescanVars, chatVars>>

SpecPlaylist == InitPlaylist /\ [][NextPlaylist]_vars

\* The subscriptions table under arbitrary subscribe and unsubscribe calls.
InitSubscriptions ==
    /\ FetchIdle
    /\ ChangedIdle
    /\ ScanIdle
    /\ StoreEmpty
    /\ AuxIdle

NextSubscriptions ==
    \/ (\E args \in SubscribeInputs : subscribe(args))
          /\ UNCHANGED <<fetchVars, changedVars, scraperVars, playlistVars, botVars, rescanVars, chatVars>>
    \/ (\E args \in UnsubscribeInputs : unsubscribe(args))
          /\ UNCHANGED <<fetchVars, changedVars, scraperVars, playlistVars, botVars, rescanVars, chatVars>>

SpecSubscriptions == InitSubscriptions /\ [][NextSubscriptions]_vars

\* The animes table and the event queue under arbitrary upsert calls.
InitUpsert ==
    /\ FetchIdle
    /\ ChangedIdle
    /\ ScanIdle
    /\ StoreEmpty
    /\ AuxIdle

NextUpsert ==
    (\E args \in UpsertInputs : upsert(args))
        /\ UNCHANGED <<fetchVars, changedVars, runVars, scanVars, now, auxVars>>

SpecUpsert == InitUpsert /\ [][NextUpsert]_vars

\* The bot's poller over a store with subscriptions and pending events.
InitBot ==
    /\ FetchIdle
    /\ ChangedIdle
    /\ ScanIdle
    /\ PlaylistIdle
    /\ BotIdle
    /\ animes = BotAnimes
    /\ now = 1
    /\ notificationQueue \in SeqsUpTo(EventInputs, MaxQueue)
    /\ subscriptions \in BotTables
    /\ RescanIdle
    /\ ChatIdle

NextBot ==
    \/ BotPoll
          /\ UNCHANGED <<fetchVars, changedVars, runVars, scanVars, animes, now,
                         playlistVars, subsVars, rescanVars, chatVars>>
    \/ BotNextNotification
          /\ UNCHANGED <<fetchVars, changedVars, runVars, scanVars, animes, now,
                         playlistVars, subsVars, rescanVars, chatVars>>
    \/ BotNextSubscriber
          /\ UNCHANGED <<fetchVars, changedVars, runVars, scanVars, animes, now,
                         playlistVars, subsVars, rescanVars, chatVars>>
    \/ (\E succeeds \in BOOLEAN : BotSend(succeeds))
          /\ UNCHANGED <<fetchVars, changedVars, runVars, scanVars, animes, now,
                         playlistVars, subsVars, rescanVars, chatVars>>
    \/ BotMark
          /\ UNCHANGED <<fetchVars, changedVars, runVars, scanVars, animes, now,
                         playlistVars, subsVars, rescanVars, chatVars>>

SpecBot == InitBot /\ [][NextBot]_vars

\* Repeated processAnime calls for one item of a site whose responses for
\* it stay the same, over an initially empty store.
InitRescan ==
    /\ FetchIdle
    /\ ChangedIdle
    /\ ScanIdle
    /\ StoreEmpty
    /\ PlaylistIdle
    /\ SubsIdle
    /\ BotIdle
    /\ ChatIdle
    /\ siteHtml \in DetailPages
    /\ sitePlaylist \in PlaylistResponses
    /\ extracted = <<>>
    /\ outcomes = <<>>
    /\ playlistFetches = 0

NextRescan ==
    \/ ProcessAnime("/a", "t1")
          /\ UNCHANGED <<fetchVars, changedVars, runVars, scanVars,
                         playlistVars, subsVars, botVars, chatVars>>
    \/ Tick
          /\ UNCHANGED <<fetchVars, changedVars, runVars, scanVars,
                         playlistVars, subsVars, botVars, chatVars>>

SpecRescan == InitRescan /\ [][NextRescan]_vars

\* One run of runScraper on a site whose detail pages load, every await of
\* the run completing: the run takes its next step whenever it has one.
InitLive ==
    /\ FetchIdle
    /\ ChangedIdle
    /\ ScanIdle
    /\ AuxIdle
    /\ animes \in InitialStores
    /\ notificationQueue = <<>>
    /\ now = 1

NextLive ==
    \/ RunStart(1) /\ UNCHANGED <<fetchVars, changedVars, auxVars>>
    \/ RunLoop(1, MaxPage) /\ UNCHANGED <<fetchVars, changedVars, auxVars>>
    \/ RunLoopBeyond(1) /\ UNCHANGED <<fetchVars, changedVars, auxVars>>
    \/ (\E out \in LiveListingOutcomes(page[1]) : ScanFetchListing(1, out))
          /\ UNCHANGED <<fetchVars, changedVars, auxVars>>
    \/ (\E el \in Elements : ScanSkipElement(1, el))
          /\ UNCHANGED <<fetchVars, changedVars, auxVars>>
    \/ (\E el \in Elements, d \in Details : ScanExtract(1, el, d))
          /\ UNCHANGED <<fetchVars, changedVars, auxVars>>
    \/ ScanEndOfPage(1) /\ UNCHANGED <<fetchVars, changedVars, auxVars>>
    \/ processAnimeQuery(1) /\ UNCHANGED <<fetchVars, changedVars, auxVars>>
    \/ processAnimeDecide(1) /\ UNCHANGED <<fetchVars, changedVars, auxVars>>

SpecLive == InitLive /\ [][NextLive]_vars /\ WF_vars(NextLive)

\* The bot's handlers, one update handled after another, against a store
\* that holds nothing or the anime of the first url of the site.
InitChat ==
    /\ FetchIdle
    /\ ChangedIdle
    /\ ScanIdle
    /\ animes \in { <<>>,
                    << Anime(<<"https://", "anitube.in.ua", "/", "1", "-", "a", "-", "b", ".html">>,
                             "t1", "d1", "i1", 1, 1, <<PlayerA>>, 1) >> }
    /\ notificationQueue = <<>>
    /\ now = 1
    /\ AuxIdle

NextChat ==
    \/ (\E chat \in UpdateChats, url \in CommandUrls : BotSubscribeCommand(chat, url))
          /\ UNCHANGED <<fetchVars, changedVars, scraperVars,
                         playlistVars, botVars, rescanVars>>
    \/ (\E chat \in UpdateChats, type \in SubscriptionTypes : BotCallbackQuery(chat, type))
          /\ UNCHANGED <<fetchVars, changedVars, scraperVars,
                         playlistVars, botVars, rescanVars>>
    \/ (\E chat \in UpdateChats, url \in CommandUrls : BotUnsubscribeCommand(chat, url))
          /\ UNCHANGED <<fetchVars, changedVars, scraperVars,
                         playlistVars, botVars, rescanVars>>

SpecChat == InitChat /\ [][NextChat]_vars

\* processAnime applied again and again to an item whose detail page and
\* playlist never change, while single requests may fail.
InitTransient ==
    /\ FetchIdle
    /\ ChangedIdle
    /\ ScanIdle
    /\ StoreEmpty
    /\ PlaylistIdle
    /\ SubsIdle
    /\ BotIdle
    /\ ChatIdle
    /\ siteHtml \in { h \in DetailPages : h.loginHash # "" /\ h.dataNewsId # ""
                                          /\ h.imageSrc = NoAttr }
    /\ sitePlaylist \in { p \in PlaylistResponses : p.success }
    /\ extracted = <<>>
    /\ outcomes = <<>>
    /\ playlistFetches = 0

NextTransient ==
    \/ (\E html \in {siteHtml} \cup DetailFailures("/a"),
           resp \in {sitePlaylist} \cup { p \in PlaylistResponses : ~p.success } :
          ProcessAnimeOn("/a", "t1", html, resp))
          /\ UNCHANGED <<fetchVars, changedVars, runVars, scanVars,
                         playlistVars, subsVars, botVars, chatVars>>
    \/ Tick
          /\ UNCHANGED <<fetchVars, changedVars, runVars, scanVars,
                         playlistVars, subsVars, botVars, chatVars>>

SpecTransient == InitTransient /\ [][NextTransient]_vars

\* One direct call of scanPage against a store whose queries and mutations
\* may fail.
NextStoreFails ==
    \/ NextScanPage
    \/ processAnimeStoreThrows(1) /\ UNCHANGED <<fetchVars, changedVars, auxVars>>

SpecStoreFails == InitScanPage /\ [][NextStoreFails]_vars

\* One run of runScraper over enough pages for the counter to reach
\* UNCHANGED_LIMIT, against a store that may fail.
NextCursor ==
    \/ RunStart(1) /\ UNCHANGED <<fetchVars, changedVars, auxVars>>
    \/ RunLoop(1, CursorPages) /\ UNCHANGED <<fetchVars, changedVars, auxVars>>
    \/ (\E out \in ListingOutcomes(page[1], MaxItems) : ScanFetchListing(1, out))
          /\ UNCHANGED <<fetchVars, changedVars, auxVars>>
    \/ (\E el \in RunElements : ScanSkipElement(1, el))
          /\ UNCHANGED <<fetchVars, changedVars, auxVars>>
    \/ (\E el \in RunElements :
           \E d \in RunDetails \cup RunDetailFailures(el.link) : ScanExtract(1, el, d))
          /\ UNCHANGED <<fetchVars, changedVars, auxVars>>
    \/ ScanEndOfPage(1) /\ UNCHANGED <<fetchVars, changedVars, auxVars>>
    \/ processAnimeNull(1) /\ UNCHANGED <<fetchVars, changedVars, auxVars>>
    \/ processAnimeQuery(1) /\ UNCHANGED <<fetchVars, changedVars, auxVars>>
    \/ processAnimeDecide(1) /\ UNCHANGED <<fetchVars, changedVars, auxVars>>
    \/ processAnimeStoreThrows(1) /\ UNCHANGED <<fetchVars, changedVars, auxVars>>

SpecCursor == InitLive /\ [][NextCursor]_vars

\* Runs of runScraper that may overlap, on a site that answers every
\* request, lists the one item or nothing on a page, and whose playlist of
\* the item only grows.
InitOverlap ==
    /\ FetchIdle
    /\ ChangedIdle
    /\ ScanIdle
    /\ StoreEmpty
    /\ PlaylistIdle
    /\ SubsIdle
    /\ BotIdle
    /\ ChatIdle
    /\ siteHtml = [description |-> "d1", imageSrc |-> NoAttr, loginHash |-> "h1",
                   dataNewsId |-> "7", scriptNewsId |-> "", metaCount |-> NoCount]
    /\ sitePlaylist = PlaylistJson(<< Li(Attr(SubPrefix \o <<"1">>), Attr(<<"f1">>), <<"1">>) >>)
    /\ extracted = <<>>
    /\ outcomes = <<>>
    /\ playlistFetches = 0

NextOverlap ==
    \/ \E r \in Runs :
        \/ RunStart(r) /\ UNCHANGED <<fetchVars, changedVars, auxVars>>
        \/ RunLoop(r, OverlapPages) /\ UNCHANGED <<fetchVars, changedVars, auxVars>>
        \/ (\E n \in {0, 1} :
               ScanFetchListing(r, [kind |-> "listing", items |-> n]))
              /\ UNCHANGED <<fetchVars, changedVars, auxVars>>
        \/ (\E el \in RunElements : ScanSkipElement(r, el))
              /\ UNCHANGED <<fetchVars, changedVars, auxVars>>
        \/ (\E el \in RunElements :
               ScanExtract(r, el, scrapeDetails(siteHtml, sitePlaylist)))
              /\ UNCHANGED <<fetchVars, changedVars, auxVars>>
        \/ ScanEndOfPage(r) /\ UNCHANGED <<fetchVars, changedVars, auxVars>>
        \/ processAnimeQuery(r) /\ UNCHANGED <<fetchVars, changedVars, auxVars>>
        \/ processAnimeDecide(r) /\ UNCHANGED <<fetchVars, changedVars, auxVars>>
    \/ SiteGrows
          /\ UNCHANGED <<fetchVars, changedVars, scraperVars,
                         playlistVars, subsVars, botVars, chatVars>>

SpecOverlap == InitOverlap /\ [][NextOverlap]_vars

\* The poller with a markNotificationProcessed that can throw and with
\* invocations the 10-second timer starts during an earlier one.
NextRepoll ==
    \/ NextBot
    \/ BotMarkThrows
          /\ UNCHANGED <<fetchVars, changedVars, runVars, scanVars, animes, now,
                         playlistVars, subsVars, rescanVars, chatVars>>
    \/ (\E marked \in 0..MaxQueue :
          \E ok \in SUBSET ((1..MaxQueue) \X ChatIds) : BotOverlappingPoll(marked, ok))
          /\ UNCHANGED <<fetchVars, changedVars, runVars, scanVars, animes, now,
                         playlistVars, subsVars, rescanVars, chatVars>>

SpecRepoll == InitBot /\ [][NextRepoll]_vars

\* ------------------------------------------------------------------------
\* Properties of fetchPage (checked under SpecFetch)
\* ------------------------------------------------------------------------
NonRetryable(resp) == resp.kind = "http" /\ ~Ok(resp) /\ resp.status # 429

\* C2: a call of fetchPage whose first response is a non-2xx status other
\* than 429 fails at once, whatever its retry budget: that request is the
\* only one, no 3-second or 10-second wait is pending or performed, and the
\* error is on its way to the caller.
C2_NonRetryableFailsImmediately ==
    (fHist # <<>> /\ NonRetryable(fHist[1])) =>
        /\ Len(fReqs) = 1
        /\ fWaits3 = 0 /\ fWaits10 = 0
        /\ fPhase \in {"unwind", "thrown"}
        /\ fOut = ErrorOf(TargetUrl(fArgs.url), fHist[1])

\* The response sequence so far is k 429 responses followed by one 200.
RateLimitedThenOk ==
    /\ fHist # <<>>
    /\ \A i \in 1..(Len(fHist) - 1) : fHist[i].kind = "http" /\ fHist[i].status = 429
    /\ fHist[Len(fHist)].kind = "http" /\ fHist[Len(fHist)].status = 200

\* C6: when the responses are k 429s followed by a 200 and k <= retries,
\* fetchPage has returned the body of the 200 response after exactly k+1
\* requests, all to the resolved url of the call with the call's headers,
\* exactly k ten-second waits and no three-second wait.
C6_RateLimitRetriesThenBody ==
    (RateLimitedThenOk /\ Len(fHist) - 1 <= fArgs.retries) =>
        /\ fPhase = "returned"
        /\ fOut = [kind |-> "text", body |-> fHist[Len(fHist)].body]
        /\ Len(fReqs) = Len(fHist)
        /\ \A i \in 1..Len(fReqs) :
              fReqs[i] = [url |-> TargetUrl(fArgs.url),
                          headers |-> RequestHeaders(fArgs.headers)]
        /\ fWaits10 = Len(fHist) - 1
        /\ fWaits3 = 0

C6_Witness ==
    /\ RateLimitedThenOk
    /\ Len(fHist) = 3
    /\ fArgs.retries = 3
    /\ StartsWithSlash(fArgs.url)
    /\ fArgs.headers = {<<"Referer", "r">>}
    /\ fPhase = "returned"
    /\ fOut = [kind |-> "text", body |-> "body2"]

\* C7: the 429 branch and the failure branch spend one shared budget: a call
\* with budget n never issues more than n+1 requests nor performs more than
\* n waits in total, and once an error propagates out of a nested call the
\* whole budget is spent, so no enclosing call retries it.
C7_SharedRetryBudget ==
    /\ Len(fReqs) <= fArgs.retries + 1
    /\ fWaits10 + fWaits3 <= fArgs.retries
    /\ fPhase \in {"unwind", "thrown"} =>
          /\ Len(fReqs) = fArgs.retries + 1
          /\ fWaits10 + fWaits3 = fArgs.retries
          /\ fOut.kind = "error"

C7_Witness ==
    /\ fPhase = "thrown"
    /\ fArgs.retries = 3
    /\ Len(fReqs) = 4
    /\ fWaits10 = 2
    /\ fWaits3 = 1
    /\ fHist[1].kind = "netfail"
    /\ fHist[4].status = 429

\* ------------------------------------------------------------------------
\* Properties of scanPage (checked under SpecScanPage)
\* ------------------------------------------------------------------------
\* Run r is at an item of its page: processAnime is in progress.
AtItem(r) == pc[r] \in {"extracted", "queried"}

\* C1: an item whose detail extraction returned null is skipped: the step
\* that handles it leaves processed and the consecutive-unchanged counter as
\* they were and goes on with the next item, so it never stops the scan.
C1_NullItemIsSkipped ==
    [][\A r \in Runs :
          (pc[r] = "extracted" /\ newAnime[r] = NULL /\ pc'[r] # "extracted") =>
              /\ processed'[r] = processed[r]
              /\ currentConsecutiveUnchanged'[r] = currentConsecutiveUnchanged[r]
              /\ pc'[r] = "loop"]_vars

\* C3: the step of an item that brings the consecutive-unchanged counter to
\* the limit ends the scan: scanPage returns stop = true, the counter equal
\* to the limit and processed equal to the upserts made so far; and a scan
\* that has returned takes no further element and makes no further upsert.
C3_LimitStopsScanAtOnce ==
    [][\A r \in Runs :
          /\ (/\ AtItem(r)
              /\ currentConsecutiveUnchanged'[r] # currentConsecutiveUnchanged[r]
              /\ currentConsecutiveUnchanged'[r] = stopOptions[r].limit) =>
                 /\ pc'[r] = "returned"
                 /\ result'[r] = ScanResult(upserts[r], stopOptions[r].limit, TRUE)
                 /\ upserts'[r] = upserts[r]
                 /\ animes' = animes
          /\ (pc[r] = "returned" /\ pc'[r] = "returned") =>
                 /\ idx'[r] = idx[r]
                 /\ upserts'[r] = upserts[r]
                 /\ result'[r] = result[r]]_vars

C3_Witness ==
    /\ pc[1] = "returned"
    /\ result[1] = ScanResult(1, 1, TRUE)
    /\ stopOptions[1].limit = 1
    /\ upserts[1] = 1
    /\ idx[1] = 2
    /\ items[1] = 3

\* C4: the step that settles a successfully extracted item either upserts
\* (no stored record, or isAnimeChanged(stored, new)): one upsert, after which
\* the store holds the new record for the url, processed grows by 1 and the
\* counter is 0; or leaves the store alone: no upsert, processed unchanged
\* and the counter grows by exactly 1.
C4_UpsertIffNewOrChanged ==
    [][\A r \in Runs :
          (pc[r] = "queried" /\ pc'[r] # "queried") =>
              LET fresh == newAnime[r]
                  stored == getByUrl(fresh.url)
                  rows == { i \in 1..Len(animes') : animes'[i].url = fresh.url }
              IN IF stored = NULL \/ isAnimeChanged(stored, fresh)
                 THEN /\ upserts'[r] = upserts[r] + 1
                      /\ Cardinality(rows) = 1
                      /\ \A i \in rows : animes'[i] = fresh
                      /\ \A i \in 1..Len(animes) :
                            animes[i].url # fresh.url => animes'[i] = animes[i]
                      /\ processed'[r] = processed[r] + 1
                      /\ currentConsecutiveUnchanged'[r] = 0
                 ELSE /\ upserts'[r] = upserts[r]
                      /\ animes' = animes
                      /\ notificationQueue' = notificationQueue
                      /\ processed'[r] = processed[r]
                      /\ currentConsecutiveUnchanged'[r] =
                            currentConsecutiveUnchanged[r] + 1]_vars

\* Two upserts and one unchanged item on a page, the store holding one row:
\* one upsert replaced a stored record that isAnimeChanged found changed.
C4_Witness ==
    /\ upserts[1] = 2
    /\ processed[1] = 2
    /\ currentConsecutiveUnchanged[1] = 1
    /\ idx[1] = 3
    /\ Len(animes) = 1

\* C8: when the listing fetch fails, scanPage returns stop = true exactly
\* when the failure is an HTTP 404 response, whatever the page number, with
\* processed 0 and the counter that was passed in.
C8_StopIffListing404 ==
    \A r \in Runs :
        (pc[r] = "returned" /\ caught[r] # NULL) =>
            /\ result[r].stop = (caught[r].cause = "status" /\ caught[r].status = 404)
            /\ result[r].processed = 0
            /\ result[r].consecutiveUnchanged = stopOptions[r].consecutiveUnchanged

\* ------------------------------------------------------------------------
\* Properties of runScraper (checked under Spec)
\* ------------------------------------------------------------------------
\* C9: within a run the pages passed to scanPage are 1, 2, ..., k in this
\* order, and the run ends after a page exactly when its scan returned
\* stop = true, or processed = 0 with a counter of 0; otherwise the next
\* call scans the next page.
C9_PagesInOrderUntilStop ==
    /\ [](\A r \in Runs :
            /\ \A i \in 1..Len(calls[r]) : calls[r][i] = i
            /\ pc[r] # "idle" => page[r] = Len(calls[r]))
    /\ [][\A r \in Runs :
            /\ (pc[r] = "returned" /\ pc'[r] # "returned") =>
                  IF \/ result[r].stop
                     \/ result[r].processed = 0 /\ result[r].consecutiveUnchanged = 0
                  THEN pc'[r] = "done" /\ calls'[r] = calls[r]
                  ELSE /\ pc'[r] = "fetch"
                       /\ calls'[r] = Append(calls[r], Len(calls[r]) + 1)
                       /\ stopOptions'[r].consecutiveUnchanged =
                             result[r].consecutiveUnchanged
            /\ (pc'[r] = "done" /\ pc[r] # "done") => pc[r] = "returned"
            /\ pc[r] = "done" => pc'[r] = "done" /\ calls'[r] = calls[r]]_vars

C9_Witness ==
    /\ pc[1] = "done"
    /\ calls[1] = <<1, 2>>
    /\ result[1] = ScanResult(0, 0, FALSE)
    /\ Len(animes) = 1

\* C10: every run starts by scanning page 1 with a counter of 0 and limit 30,
\* whatever the cursor of the run before it holds, finished or in progress.
C10_EveryRunStartsAtPageOne ==
    \A r \in Runs :
        /\ calls[r] # <<>> => calls[r][1] = 1
        /\ (Len(calls[r]) = 1 /\ pc[r] \in {"fetch", "loop", "extracted", "queried"}) =>
              /\ page[r] = 1
              /\ stopOptions[r] = [consecutiveUnchanged |-> 0,
                                   limit |-> UNCHANGED_LIMIT]
              /\ pc[r] = "fetch" => consecutiveUnchanged[r] = 0

C10_Witness ==
    /\ pc[2] = "fetch"
    /\ calls[2] = <<1>>
    /\ pc[1] = "extracted"
    /\ page[1] = 2
    /\ consecutiveUnchanged[1] = 1

\* ------------------------------------------------------------------------
\* Properties of isAnimeChanged (checked under SpecChanged)
\* ------------------------------------------------------------------------
\* The two compared records agree in both counts and in the number of sources.
SameCountsAndLength ==
    /\ cOld.subbedEpisodes = cNew.subbedEpisodes
    /\ cOld.dubbedEpisodes = cNew.dubbedEpisodes
    /\ Len(cOld.playerUrls) = Len(cNew.playerUrls)

\* C5: isAnimeChanged is true exactly when the subbed counts differ, the
\* dubbed counts differ or the playerUrls lists differ in length; records
\* that differ only in title, description, imageUrl, lastUpdated or the
\* content of playerUrls compare as unchanged.
C5_ChangedIffCountsOrLength ==
    cResult # <<>> =>
        /\ cResult[1] = ~SameCountsAndLength
        /\ SameCountsAndLength => cResult[1] = FALSE

C5_Witness ==
    /\ cResult = <<FALSE>>
    /\ cOld.title # cNew.title
    /\ cOld.description # cNew.description
    /\ cOld.imageUrl # cNew.imageUrl
    /\ cOld.lastUpdated # cNew.lastUpdated
    /\ cOld.playerUrls # cNew.playerUrls

\* ------------------------------------------------------------------------
\* Properties of the playlist extraction (checked under SpecPlaylist)
\* ------------------------------------------------------------------------
\* The positions of the fragment's elements that have both attributes.
WithBoth == { i \in 1..Len(plVideos) :
                Truthy(plVideos[i].id) /\ Truthy(plVideos[i].file) }

\* The episode number of element i: the leading digits of its trimmed text,
\* or the whole trimmed text when it does not start with a digit.
EpisodeOf(i) ==
    LET t == Trim(plVideos[i].text)
    IN IF t # <<>> /\ Head(t) \in CharDigits THEN LeadingDigits(t) ELSE t

\* The positions of WithBoth in ascending order.
RECURSIVE Ascending(_)
Ascending(S) ==
    IF S = {} THEN <<>>
    ELSE LET m == CHOOSE x \in S : \A y \in S : x <= y
         IN <<m>> \o Ascending(S \ {m})

\* C11: the dubbed count is the number of distinct episode numbers among the
\* elements with both attributes whose id starts with 0_0_, the subbed count
\* the same for 0_1_, and playerUrls holds one descriptor per element with
\* both attributes, in playlist order, whatever its id prefix.
C11_CountsAreDistinctEpisodes ==
    plOut # NULL =>
        /\ plOut.dubbed = Cardinality({ EpisodeOf(i) : i \in
              { j \in WithBoth : StartsWith(plVideos[j].id.value, DubPrefix) } })
        /\ plOut.subbed = Cardinality({ EpisodeOf(i) : i \in
              { j \in WithBoth : StartsWith(plVideos[j].id.value, SubPrefix) } })
        /\ Len(plOut.playerUrls) = Cardinality(WithBoth)
        /\ \A k \in 1..Len(plOut.playerUrls) :
              LET e == plVideos[Ascending(WithBoth)[k]]
              IN plOut.playerUrls[k] =
                    [id |-> e.id.value, text |-> Trim(e.text), file |-> e.file.value]

\* Two entries of dubbed episode 1, one of subbed episode 1: the duplicate
\* collapses in the count and stays in playerUrls.
C11_Witness ==
    /\ plOut # NULL
    /\ plOut.dubbed = 1
    /\ plOut.subbed = 1
    /\ Len(plOut.playerUrls) = 3
    /\ Len(plVideos) = 3
    /\ \E i, j \in 1..3 : i # j /\ plVideos[i] # plVideos[j]
          /\ StartsWith(plVideos[i].id.value, DubPrefix)
          /\ StartsWith(plVideos[j].id.value, DubPrefix)

\* ------------------------------------------------------------------------
\* Properties of parseAnimeDetails within scanPage (checked under SpecScanPage)
\* ------------------------------------------------------------------------
\* C12: an error that ends the try block of parseAnimeDetails (the detail
\* fetch failed, or parsing threw) never leaves it: the extraction yields
\* null and the page-level catch receives nothing; and scanPage then goes on
\* with the remaining items of the page: the step that settles the failed
\* item returns to the loop and does not make scanPage return.
C12_ExtractionFailureNeverEndsThePage ==
    /\ [](\A r \in Runs :
            scrapeError[r] # NULL =>
                pc[r] = "extracted" /\ newAnime[r] = NULL /\ caught[r] = NULL)
    /\ [][\A r \in Runs :
            (pc[r] = "extracted" /\ scrapeError[r] # NULL /\ pc'[r] # "extracted") =>
                /\ pc'[r] = "loop"
                /\ caught'[r] = NULL
                /\ result'[r] = result[r]]_vars

\* ------------------------------------------------------------------------
\* Properties of the store's upsert (checked under SpecUpsert)
\* ------------------------------------------------------------------------
\* The rows of the animes table after the step that hold the given url.
RowsAfter(url) == { i \in 1..Len(animes') : animes'[i].url = url }

\* The step stores args: afterwards the one row of args.url is args, and
\* the rows of all other urls are as before.
Stores(args) ==
    /\ \E i \in RowsAfter(args.url) : animes'[i] = args
    /\ \A i \in 1..Len(animes) : animes[i].url # args.url => animes'[i] = animes[i]
    /\ Len(animes') = IF Matching(args.url) = {} THEN Len(animes) + 1 ELSE Len(animes)

\* The kind of the change event the claim prescribes for args over the
\* stored record, "none" when it prescribes no event.
ClaimedKind(stored, args) ==
    LET subUp == stored # NULL /\ args.subbedEpisodes > stored.subbedEpisodes
        dubUp == stored # NULL /\ args.dubbedEpisodes > stored.dubbedEpisodes
    IN IF subUp /\ dubUp THEN "all"
       ELSE IF subUp THEN "sub"
       ELSE IF dubUp THEN "dub"
       ELSE "none"

\* C13: every upsert enqueues exactly one pending event, of kind all, sub or
\* dub, when a record of the url exists and the subbed and/or dubbed count
\* grew strictly, and enqueues nothing otherwise (first insertion, equal or
\* smaller counts, only the source list changed).
C13_EventIffCountGrew ==
    [][\E args \in UpsertInputs :
          /\ Stores(args)
          /\ LET kind == ClaimedKind(getByUrl(args.url), args)
             IN IF kind = "none"
                THEN notificationQueue' = notificationQueue
                ELSE notificationQueue' =
                        Append(notificationQueue,
                               [animeUrl |-> args.url, title |-> args.title,
                                type |-> kind, status |-> "pending",
                                createdAt |-> now])]_vars

\* Both counts of the first record grew in one upsert, which enqueued an
\* event of kind all under the new title; the insertion of the second
\* record enqueued nothing.
C13_Witness ==
    /\ Len(notificationQueue) = 1
    /\ notificationQueue[1] = [animeUrl |-> "/a", title |-> "t2", type |-> "all",
                               status |-> "pending", createdAt |-> 1]
    /\ Len(animes) = 2
    /\ animes[1].url = "/a" /\ animes[1].title = "t2"
    /\ animes[1].subbedEpisodes = 1 /\ animes[1].dubbedEpisodes = 1
    /\ animes[2].url = "/b" /\ animes[2].subbedEpisodes = 1

\* ------------------------------------------------------------------------
\* Properties of subscribe and unsubscribe (checked under SpecSubscriptions)
\* ------------------------------------------------------------------------
\* The subscriptions of all pairs but (chatId, animeUrl), in table order.
OtherPairs(table, chatId, animeUrl) ==
    SelectSeq(table, LAMBDA row :
        ~(row.telegramChatId = chatId /\ row.animeUrl = animeUrl))

\* The subscriptions of the pair (chatId, animeUrl), in table order.
ThisPair(table, chatId, animeUrl) ==
    SelectSeq(table, LAMBDA row :
        row.telegramChatId = chatId /\ row.animeUrl = animeUrl)

\* The step is a subscribe of args as the claim describes it.
SubscribedAsClaimed(args) ==
    LET c == args.telegramChatId
        u == args.animeUrl
    IN /\ ThisPair(subscriptions', c, u) = <<args>>
       /\ OtherPairs(subscriptions', c, u) = OtherPairs(subscriptions, c, u)
       /\ Len(subscriptions') =
             IF ThisPair(subscriptions, c, u) = <<>>
             THEN Len(subscriptions) + 1 ELSE Len(subscriptions)
       /\ \A i \in 1..Len(subscriptions) :
             (subscriptions[i].telegramChatId = c /\ subscriptions[i].animeUrl = u)
                => subscriptions'[i] = args

\* The step is an unsubscribe of args as the claim describes it.
UnsubscribedAsClaimed(args) ==
    LET c == args.telegramChatId
        u == args.animeUrl
    IN /\ ThisPair(subscriptions', c, u) = <<>>
       /\ OtherPairs(subscriptions', c, u) = OtherPairs(subscriptions, c, u)

\* C16: there is at most one subscription per (telegramChatId, animeUrl);
\* a subscribe of an existing pair updates its row in place and of a new
\* pair adds one row, an unsubscribe removes the row of its pair if there
\* is one, and the rows of all other pairs stay as they are.
C16_OneSubscriptionPerPair ==
    /\ [](\A c \in ChatIds, u \in AnimeUrls : Cardinality(SubsOfPair(c, u)) <= 1)
    /\ [][\/ \E args \in SubscribeInputs : SubscribedAsClaimed(args)
          \/ \E args \in UnsubscribeInputs : UnsubscribedAsClaimed(args)]_vars

\* Chat 1 re-subscribed to /a with another type and title after chat 2
\* had subscribed: its row is still the first one.
C16_Witness ==
    /\ Len(subscriptions) = 2
    /\ subscriptions[1] = Subscription(1, "/a", "dub", "t2")
    /\ subscriptions[2] = Subscription(2, "/a", "all", "t1")

\* ------------------------------------------------------------------------
\* Properties of the notification poller (checked under SpecBot)
\* ------------------------------------------------------------------------
\* The combinations of subscription type and event kind for which the
\* subscriber is to be notified.
ToBeNotified(subType, kind) ==
    \/ subType = "all"
    \/ subType = "sub" /\ kind \in {"sub", "all"}
    \/ subType = "dub" /\ kind \in {"dub", "all"}

\* C14: an event is marked processed only after the message to every
\* subscriber of its url whose type matches has been sent successfully; an
\* event with a failed send stays pending.
C14_ProcessedOnlyWhenDelivered ==
    \A id \in 1..Len(notificationQueue) :
        notificationQueue[id].status = "processed" =>
            \A i \in 1..Len(subscriptions) :
                (/\ subscriptions[i].animeUrl = notificationQueue[id].animeUrl
                 /\ ToBeNotified(subscriptions[i].type, notificationQueue[id].type))
                    => <<id, subscriptions[i].telegramChatId>> \in delivered

\* C15: the message computed for a subscriber is a text exactly when the
\* subscription type is all, or sub with an event of kind sub or all, or
\* dub with an event of kind dub or all; otherwise it is null.
C15_MessageIffTypeMatches ==
    bPc = "send" =>
        (botMessage # NULL <=>
            ToBeNotified(CurrentSubscriber.type, CurrentNotification.type))

\* A dub-only subscriber and a sub-only event: no message, after the
\* subscriber of type all before it was sent one for the same event.
C15_Witness ==
    /\ bPc = "send"
    /\ CurrentSubscriber.type = "dub"
    /\ CurrentNotification.type = "sub"
    /\ botMessage = NULL
    /\ sIdx = 2
    /\ subscribers[1].type = "all"
    /\ <<pendingNotifications[nIdx], subscribers[1].telegramChatId>> \in delivered

\* ------------------------------------------------------------------------
\* Properties of repeated extraction (checked under SpecRescan)
\* ------------------------------------------------------------------------
\* C17: any two records extracted from the same responses compare as
\* unchanged in both directions, whatever their lastUpdated; so only the
\* first processAnime call for the item upserts, every later one returns
\* UNCHANGED and leaves the stored record as the first call wrote it.
C17_RescanIsUnchanged ==
    /\ \A i, j \in 1..Len(extracted) :
          /\ extracted[i] # NULL
          /\ ~isAnimeChanged(extracted[i], extracted[j])
    /\ \A k \in 1..Len(outcomes) :
          outcomes[k] = IF k = 1 THEN "UPDATED" ELSE "UNCHANGED"
    /\ outcomes # <<>> => animes = <<extracted[1]>>
    /\ notificationQueue = <<>>

\* Two extractions at different times of an item with a playlist of three
\* entries: the second one was found unchanged.
C17_Witness ==
    /\ Len(extracted) = 2
    /\ extracted[1].lastUpdated # extracted[2].lastUpdated
    /\ Len(extracted[2].playerUrls) = 3
    /\ extracted[2].dubbedEpisodes = 1
    /\ outcomes = <<"UPDATED", "UNCHANGED">>
    /\ animes = <<extracted[1]>>

\* ------------------------------------------------------------------------
\* Properties of the animes table under overlapping runs (checked under Spec)
\* ------------------------------------------------------------------------
\* C18: the table never holds two records of one url, the url of a stored
\* record never changes and no record is ever removed, also when two
\* overlapping runs both find an item absent and both upsert it.
C18_OneRecordPerUrl ==
    /\ [](\A i, j \in 1..Len(animes) : animes[i].url = animes[j].url => i = j)
    /\ [][/\ Len(animes') >= Len(animes)
          /\ \A i \in 1..Len(animes) : animes'[i].url = animes[i].url]_vars

\* Both runs have upserted the item of page 1, which only a run that found
\* it absent or changed does; the table holds one record.
C18_Witness ==
    /\ calls[1] = <<1>> /\ upserts[1] = 1
    /\ calls[2] = <<1>> /\ upserts[2] = 1
    /\ Len(animes) = 1

\* ------------------------------------------------------------------------
\* Properties of an empty listing (checked under SpecScanPage)
\* ------------------------------------------------------------------------
\* C19: when the listing fetch succeeds and the page holds no item, the
\* same step makes scanPage return stop = true with processed 0 and the
\* counter it was passed, having taken no element, extracted nothing and
\* neither queried nor written the store; nothing follows the return.
C19_EmptyListingStops ==
    /\ [][\A r \in Runs :
            (pc[r] = "fetch" /\ pc'[r] # "fetch" /\ caught'[r] = NULL /\ items'[r] = 0) =>
                /\ pc'[r] = "returned"
                /\ result'[r] = ScanResult(0, stopOptions[r].consecutiveUnchanged, TRUE)
                /\ idx'[r] = 0
                /\ newAnime'[r] = NULL /\ existingAnime'[r] = NULL
                /\ upserts'[r] = 0
                /\ animes' = animes
                /\ notificationQueue' = notificationQueue]_vars
    /\ [](\A r \in Runs :
            (pc[r] = "returned" /\ caught[r] = NULL /\ items[r] = 0) =>
                /\ result[r] = ScanResult(0, stopOptions[r].consecutiveUnchanged, TRUE)
                /\ idx[r] = 0 /\ upserts[r] = 0)

C19_Witness ==
    /\ pc[1] = "returned"
    /\ caught[1] = NULL
    /\ items[1] = 0
    /\ stopOptions[1].consecutiveUnchanged = 2
    /\ result[1] = ScanResult(0, 2, TRUE)
    /\ Len(animes) = 1

\* ------------------------------------------------------------------------
\* Termination of a run (checked under SpecLive)
\* ------------------------------------------------------------------------
\* C20: every run that has started eventually ends, on every site on which
\* each request completes and only finitely many listing pages hold items;
\* a run does not go from page to page forever while listings keep failing.
C20_EveryRunTerminates ==
    \A r \in Runs : (pc[r] # "idle") ~> (pc[r] = "done")

\* ------------------------------------------------------------------------
\* fetchPage answered 429 throughout (checked under SpecFetch)
\* ------------------------------------------------------------------------
AllRateLimited ==
    \A i \in 1..Len(fHist) : fHist[i].kind = "http" /\ fHist[i].status = 429

\* C21: while every attempt is answered 429 there is no three-second wait
\* and the call does not return; a call of budget n that has ended this way
\* made n+1 attempts and n ten-second waits, and its caller received the
\* ordinary fetch-failed error of status 429.
C21_RateLimitedThroughout ==
    (fPhase # "idle" /\ AllRateLimited) =>
        /\ fWaits3 = 0
        /\ fPhase # "returned"
        /\ Len(fHist) <= fArgs.retries + 1
        /\ fPhase \in {"unwind", "thrown"} =>
              /\ Len(fReqs) = fArgs.retries + 1
              /\ fWaits10 = fArgs.retries
              /\ fOut = ErrorOf(TargetUrl(fArgs.url), HttpResponse(429, "none"))

C21_Witness ==
    /\ fPhase = "thrown"
    /\ AllRateLimited
    /\ fArgs.retries = MaxRetries
    /\ Len(fHist) = MaxRetries + 1
    /\ fWaits10 = MaxRetries
    /\ fOut.status = 429


\* ------------------------------------------------------------------------
\* The playlist step and the meta-text fallback (checked under SpecRescan)
\* ------------------------------------------------------------------------
\* Is the playlist requested for the page the site serves?
TokensPresent ==
    siteHtml.loginHash # "" /\ (siteHtml.dataNewsId # "" \/ siteHtml.scriptNewsId # "")

\* The entries of the served playlist that have both attributes.
RECURSIVE ItemsOf(_)
ItemsOf(videos) ==
    IF videos = <<>> THEN <<>>
    ELSE LET item == parsePlaylistItem(Head(videos)) IN
         IF item = NULL THEN ItemsOf(Tail(videos))
         ELSE <<item>> \o ItemsOf(Tail(videos))

PlaylistUsable ==
    TokensPresent /\ sitePlaylist.kind = "json" /\ sitePlaylist.success

ServedItems == IF PlaylistUsable THEN ItemsOf(sitePlaylist.videos) ELSE <<>>

EpisodesWith(prefix) ==
    { ServedItems[i].epNum : i \in { j \in 1..Len(ServedItems) :
                                       StartsWith(ServedItems[j].id, prefix) } }

\* C22: the meta count is taken exactly when the playlist step left both
\* counts at zero and the meta text holds a count; it then becomes the
\* dubbed count, the subbed count stays 0 and playerUrls keeps the playlist
\* entries; otherwise both counts are those of the playlist.
C22_MetaFallbackOnlyWhenBothZero ==
    \A i \in 1..Len(extracted) :
        LET e == extracted[i]
            subs == Cardinality(EpisodesWith(SubPrefix))
            dubs == Cardinality(EpisodesWith(DubPrefix))
        IN /\ e # NULL
           /\ Len(e.playerUrls) = Len(ServedItems)
           /\ \A k \in 1..Len(ServedItems) : e.playerUrls[k].id = ServedItems[k].id
           /\ e.subbedEpisodes = subs
           /\ IF subs = 0 /\ dubs = 0 /\ siteHtml.metaCount.matched
              THEN e.dubbedEpisodes = siteHtml.metaCount.count
              ELSE e.dubbedEpisodes = dubs

\* The playlist holds one entry of another prefix and the meta text a count:
\* the record has that count as dubbed, no subbed episode and the entry.
C22_Witness ==
    /\ Len(extracted) >= 1
    /\ PlaylistUsable
    /\ Len(ServedItems) = 1
    /\ siteHtml.metaCount = Count(2)
    /\ extracted[1].subbedEpisodes = 0
    /\ extracted[1].dubbedEpisodes = 2
    /\ Len(extracted[1].playerUrls) = 1


\* ------------------------------------------------------------------------
\* A failing playlist request (checked under SpecRescan)
\* ------------------------------------------------------------------------
PlaylistFailed == ~(sitePlaylist.kind = "json" /\ sitePlaylist.success)

\* C23: the playlist is requested once for every extraction whose page has
\* both tokens, whatever the answer; when the request fails (no response,
\* not ok, no JSON, no success) the extraction still returns a record, with
\* no player url and with both counts zero unless the meta text gives one.
C23_PlaylistFailureIsNoError ==
    /\ playlistFetches = IF TokensPresent THEN Len(extracted) ELSE 0
    /\ PlaylistFailed =>
          \A i \in 1..Len(extracted) :
              /\ extracted[i] # NULL
              /\ extracted[i].playerUrls = <<>>
              /\ extracted[i].subbedEpisodes = 0
              /\ extracted[i].dubbedEpisodes =
                    IF siteHtml.metaCount.matched THEN siteHtml.metaCount.count ELSE 0

\* Two extractions of a page with both tokens and no meta count whose
\* playlist answers without success although it carries a fragment.
C23_Witness ==
    /\ Len(extracted) = 2
    /\ playlistFetches = 2
    /\ TokensPresent
    /\ PlaylistFailed
    /\ sitePlaylist.videos # <<>>
    /\ siteHtml.metaCount = NoCount
    /\ extracted[2].dubbedEpisodes = 0
    /\ extracted[2].playerUrls = <<>>


\* ------------------------------------------------------------------------
\* The stored lastUpdated (checked under SpecRescan)
\* ------------------------------------------------------------------------
\* C24: once the item has been extracted, the lastUpdated of its stored
\* record is the lastUpdated of its latest extraction.
C24_LastUpdatedIsLastExtraction ==
    extracted # <<>> =>
        /\ extracted[Len(extracted)] # NULL
        /\ getByUrl("/a") # NULL
        /\ getByUrl("/a").lastUpdated = extracted[Len(extracted)].lastUpdated


\* ------------------------------------------------------------------------
\* The pending entries of the bot's handlers (checked under SpecChat)
\* ------------------------------------------------------------------------
\* The rows of the table after a step that were not rows of it before.
NewRows ==
    { subscriptions'[i] : i \in 1..Len(subscriptions') }
        \ { subscriptions[i] : i \in 1..Len(subscriptions) }

C26_StoredCountsNeverDecrease ==
    [][ \A i \in 1..Len(animes) :
            /\ Len(animes') >= i
            /\ animes'[i].subbedEpisodes >= animes[i].subbedEpisodes
            /\ animes'[i].dubbedEpisodes >= animes[i].dubbedEpisodes ]_vars


\* ------------------------------------------------------------------------
\* scanPage against a failing store (checked under SpecStoreFails)
\* ------------------------------------------------------------------------
\* C27: the processed value a scanPage call returns is the number of upsert
\* mutations the call performed, also when a query or a mutation of the
\* store throws in the middle of the page.
C27_ProcessedCountsUpserts ==
    pc[1] = "returned" => result[1].processed = upserts[1]


\* ------------------------------------------------------------------------
\* The counter of a run up to the limit (checked under SpecCursor)
\* ------------------------------------------------------------------------
\* C28: the counter of a run stays within 0..30; every scanPage call of the
\* run is entered with limit 30 and a counter below 30, and starts counting
\* from the counter the page before returned; a scan that stops at the limit
\* returns a counter of exactly 30.
C28_CounterCarriesOverAndStaysBelowLimit ==
    /\ [](\A r \in Runs :
            /\ consecutiveUnchanged[r] \in 0..UNCHANGED_LIMIT
            /\ pc[r] \in {"fetch", "loop", "extracted", "queried", "returned"} =>
                  /\ stopOptions[r].limit = UNCHANGED_LIMIT
                  /\ stopOptions[r].consecutiveUnchanged \in 0..(UNCHANGED_LIMIT - 1)
            /\ pc[r] \in {"loop", "extracted", "queried"} =>
                  currentConsecutiveUnchanged[r] \in 0..(UNCHANGED_LIMIT - 1)
            /\ pc[r] = "returned" =>
                  /\ result[r].consecutiveUnchanged \in 0..UNCHANGED_LIMIT
                  /\ (result[r].stop /\ caught[r] = NULL /\ items[r] > 0) =>
                        result[r].consecutiveUnchanged = UNCHANGED_LIMIT
                  /\ ~result[r].stop => result[r].consecutiveUnchanged < UNCHANGED_LIMIT)
    /\ [][\A r \in Runs :
            /\ (pc[r] = "returned" /\ pc'[r] = "fetch") =>
                  stopOptions'[r].consecutiveUnchanged = result[r].consecutiveUnchanged
            /\ (pc[r] = "fetch" /\ pc'[r] = "loop") =>
                  currentConsecutiveUnchanged'[r] = stopOptions[r].consecutiveUnchanged]_vars

\* A run that stopped at the limit on a later page, having entered that
\* page with a counter above 0.
C28_Witness ==
    /\ pc[1] = "returned"
    /\ page[1] > 1
    /\ stopOptions[1].consecutiveUnchanged > 0
    /\ caught[1] = NULL
    /\ result[1].stop
    /\ result[1].consecutiveUnchanged = UNCHANGED_LIMIT


\* ------------------------------------------------------------------------
\* Stored counts under overlapping runs (checked under SpecOverlap)
\* ------------------------------------------------------------------------
\* The step lowers a count of a stored record.
LowersCount ==
    \E i \in 1..Len(animes) :
        \/ animes'[i].subbedEpisodes < animes[i].subbedEpisodes
        \/ animes'[i].dubbedEpisodes < animes[i].dubbedEpisodes

\* The step is the upsert of run r.
UpsertOf(r) == pc[r] = "queried" /\ upserts'[r] = upserts[r] + 1

C30_NoEventSentTwice == resent = {}

====
